---- MODULE Spec2Model ----
(***************************************************************************)
(* Model of the automeister macro engine: the script model of             *)
(* macro/parser.py, the execution context of macro/context.py and the     *)
(* interpreter of macro/executor.py.  The interpreter is a small-step     *)
(* machine: the Python call stack is the variable `stack`, an exception   *)
(* that is propagating is the variable `exc`.                             *)
(***************************************************************************)
EXTENDS Integers, Sequences, FiniteSets, TLC

(***************************************************************************)
(* Let(v, F) is F(v) with v evaluated once: Python evaluates the argument *)
(* of a call before the call, and binds a local name to a value.          *)
(***************************************************************************)
Let(v, F(_)) == CHOOSE r \in {F(x) : x \in {v}} : TRUE

Let2(v, w, F(_, _)) == CHOOSE r \in {F(x, y) : x \in {v}, y \in {w}} : TRUE

VARIABLES status, stack, ctxs, exc, run, log, heap

vars == <<status, stack, ctxs, exc, run, log, heap>>

(***************************************************************************)
(* Bounds of the model (not program constants).                           *)
(***************************************************************************)
MaxParse == 12
\* The number of MacroContext objects of a run of the library calls.
MaxContexts == 2
\* The number of files of a directory handed to load_macros.
MaxFiles == 2
\* The number of times one list of nested action data is parsed.
MaxPasses == 2

(***************************************************************************)
(* Python values.  Every value carries its type, so that "1" and 1 differ *)
(* as they do in Python.                                                  *)
(***************************************************************************)
None == [t |-> "none"]
S(s) == [t |-> "str", s |-> s]
I(n) == [t |-> "int", n |-> n]
F(n) == [t |-> "float", n |-> n]
B(b) == [t |-> "bool", b |-> b]
L(l) == [t |-> "list", l |-> l]
D(d) == [t |-> "dict", d |-> d]
Undefined == [t |-> "undefined"]
\* float("inf"); F(n) is the float of the integral value n.
Inf == [t |-> "float", inf |-> TRUE]

EmptyDict == [k \in {} |-> None]

\* Python truthiness (bool(v), `if v:`, `not v`).
Truthy(v) ==
    CASE v.t = "none" -> FALSE
      [] v.t = "undefined" -> FALSE
      [] v.t = "str" -> v.s # ""
      [] v.t = "int" -> v.n # 0
      [] v.t = "float" -> v = Inf \/ v.n # 0
      [] v.t = "bool" -> v.b
      [] v.t = "list" -> Len(v.l) > 0
      [] v.t = "dict" -> DOMAIN v.d # {}

\* dict.get(key, default)
DictGet(d, key, default) == IF key \in DOMAIN d THEN d[key] ELSE default

\* dict without some keys (dict.pop applied to a copy)
DictDrop(d, keys) == [k \in DOMAIN d \ keys |-> d[k]]

\* d[key] = value
DictPut(d, key, value) ==
    [k \in DOMAIN d \cup {key} |-> IF k = key THEN value ELSE d[k]]

\* The keys of a dict as a list (iteration over a dict).
RECURSIVE DictKeys(_)
DictKeys(ks) ==
    Let(ks, LAMBDA keys :
        IF keys = {} THEN <<>>
        ELSE Let(CHOOSE k \in keys : TRUE, LAMBDA k :
                 <<S(k)>> \o DictKeys(keys \ {k})))

RECURSIVE NatStr(_)
NatStr(n) ==
    IF n < 10 THEN <<"0", "1", "2", "3", "4", "5", "6", "7", "8", "9">>[n + 1]
    ELSE NatStr(n \div 10) \o NatStr(n % 10)

\* str(n) for an int
IntStr(n) == IF n < 0 THEN "-" \o NatStr(0 - n) ELSE NatStr(n)

\* repr(v) and str(v); they differ on strings only.
RECURSIVE Repr(_)
RECURSIVE ReprSeq(_)
ReprSeq(l) == IF Len(l) = 0 THEN ""
              ELSE IF Len(l) = 1 THEN Repr(l[1])
              ELSE Repr(l[1]) \o ", " \o ReprSeq(Tail(l))
Repr(v) ==
    CASE v.t = "none" -> "None"
      [] v.t = "undefined" -> ""
      [] v.t = "str" -> "'" \o v.s \o "'"
      [] v.t = "int" -> IntStr(v.n)
      [] v.t = "float" -> IF v = Inf THEN "inf" ELSE IntStr(v.n) \o ".0"
      [] v.t = "bool" -> IF v.b THEN "True" ELSE "False"
      [] v.t = "list" -> "[" \o ReprSeq(v.l) \o "]"
      [] v.t = "dict" -> "{...}"

Str(v) == IF v.t = "str" THEN v.s ELSE Repr(v)

\* str.lower() on the strings whose lower-case form the code compares.
Lower(s) ==
    CASE s \in {"True", "TRUE"} -> "true"
      [] s \in {"False", "FALSE"} -> "false"
      [] s \in {"None", "NONE"} -> "none"
      [] s \in {"Yes", "YES"} -> "yes"
      [] s \in {"No", "NO"} -> "no"
      [] s \in {"On", "ON"} -> "on"
      [] s \in {"Off", "OFF"} -> "off"
      [] OTHER -> s

\* int(s) for a string: the decimal strings of the modelled range parse.
IsIntString(s) == \E n \in 0..MaxParse : NatStr(n) = s
IntOfString(s) == CHOOSE n \in 0..MaxParse : NatStr(n) = s

(***************************************************************************)
(* Exceptions.                                                            *)
(***************************************************************************)
NoExc == [type |-> "none"]

\* An exception other than MacroExecutionError: str(e) is its message.
Exc(type, msg) ==
    [type |-> type, msg |-> msg, action_index |-> None, action_name |-> None,
     wrapped |-> 0, cause |-> type]

\* MacroExecutionError(message, action_index, action_name); `cause` and
\* `wrapped` are history fields (which raise statement built it, and how
\* many times _execute_action built it from another exception).
MacroExecutionError(message, action_index, action_name, cause, wrapped) ==
    LET loc1 == IF action_index # None
                THEN " at action " \o IntStr(action_index.n) ELSE ""
        loc2 == IF Truthy(action_name)
                THEN loc1 \o " (" \o Str(action_name) \o ")" ELSE loc1
    IN [type |-> "MacroExecutionError", msg |-> message \o loc2,
        action_index |-> action_index, action_name |-> action_name,
        wrapped |-> wrapped, cause |-> cause]

IsLoopSignal(e) == e.type \in {"LoopBreak", "LoopContinue"}

(***************************************************************************)
(* MacroContext (macro/context.py): three layers of variables.            *)
(***************************************************************************)
\* MacroContext.__init__
MacroContext(params, vars_) ==
    [_params |-> params, _vars |-> vars_, _runtime_vars |-> EmptyDict]

\* d.update(other), as the new value of d
DictUpdate(d, other) ==
    [k \in DOMAIN d \cup DOMAIN other |-> IF k \in DOMAIN other THEN other[k] ELSE d[k]]

\* Variant of variables that merges the runtime vars before the parameters.
variables_runtime_first(ctx) ==
    DictUpdate(DictUpdate(DictUpdate(EmptyDict, ctx._vars), ctx._runtime_vars),
               ctx._params)

\* MacroContext.variables: a new dict updated with the default vars, then
\* the parameters, then the runtime vars
variables(ctx) ==
    DictUpdate(DictUpdate(DictUpdate(EmptyDict, ctx._vars), ctx._params),
               ctx._runtime_vars)

\* MacroContext.get
get(ctx, name, default) == DictGet(variables(ctx), name, default)

\* Variant of set that stores the value in the default-var layer.
set_as_var(ctx, name, value) ==
    [ctx EXCEPT !._vars = DictPut(ctx._vars, name, value)]

\* Variant of set that stores the value in the parameter layer.
set_as_param(ctx, name, value) ==
    [ctx EXCEPT !._params = DictPut(ctx._params, name, value)]

\* MacroContext.set
set(ctx, name, value) ==
    [ctx EXCEPT !._runtime_vars = DictPut(ctx._runtime_vars, name, value)]

(***************************************************************************)
(* Strings: search, split and strip (str.__contains__, str.split,         *)
(* str.strip).                                                            *)
(***************************************************************************)
Contains(s, sub) ==
    \E i \in 1..(Len(s) - Len(sub) + 1) : SubSeq(s, i, i + Len(sub) - 1) = sub

\* The first position at which sub occurs in s (Contains(s, sub) holds).
Find(s, sub) ==
    CHOOSE i \in 1..(Len(s) - Len(sub) + 1) :
        /\ SubSeq(s, i, i + Len(sub) - 1) = sub
        /\ \A j \in 1..(i - 1) : SubSeq(s, j, j + Len(sub) - 1) # sub

RECURSIVE Split(_, _)
Split(s, sep) ==
    Let(s, LAMBDA t :
        IF ~Contains(t, sep) THEN <<t>>
        ELSE Let(Find(t, sep), LAMBDA i :
                 <<SubSeq(t, 1, i - 1)>>
                 \o Split(SubSeq(t, i + Len(sep), Len(t)), sep)))

RECURSIVE Strip(_)
Strip(s) ==
    Let(s, LAMBDA t :
        IF Len(t) > 0 /\ SubSeq(t, 1, 1) = " " THEN Strip(SubSeq(t, 2, Len(t)))
        ELSE IF Len(t) > 0 /\ SubSeq(t, Len(t), Len(t)) = " "
             THEN Strip(SubSeq(t, 1, Len(t) - 1))
        ELSE t)

NonEmpty(x) == x # ""

\* The words of s separated by blanks.
Words(s) == SelectSeq(Split(s, " "), NonEmpty)

(***************************************************************************)
(* The template engine (jinja2, outside the repository), on the           *)
(* expression forms the scripts use: an atom, `not` atom, atom op atom.   *)
(* A template is text with {{ expression }} parts.                        *)
(***************************************************************************)
EConst(v) == [e |-> "const", v |-> v]
EVar(n) == [e |-> "var", n |-> n]
EAttr(n, a) == [e |-> "attr", n |-> n, a |-> a]
EBin(op, l, r) == [e |-> "bin", op |-> op, l |-> l, r |-> r]
ENot(x) == [e |-> "not", x |-> x]
ESyntax == [e |-> "syntax"]

JinjaOps == {"==", "!=", "<", ">", "+"}
JinjaKeywords == {"not", "and", "or", "in", "is", "if", "else"}

JinjaAtom(w) ==
    IF IsIntString(w) THEN EConst(I(IntOfString(w)))
    ELSE IF w \in {"true", "True"} THEN EConst(B(TRUE))
    ELSE IF w \in {"false", "False"} THEN EConst(B(FALSE))
    ELSE IF w \in {"none", "None"} THEN EConst(None)
    ELSE IF w \in JinjaOps \cup JinjaKeywords THEN ESyntax
    ELSE IF Len(w) >= 2 /\ SubSeq(w, 1, 1) = "'" /\ SubSeq(w, Len(w), Len(w)) = "'"
         THEN EConst(S(SubSeq(w, 2, Len(w) - 1)))
    ELSE IF \E c \in 1..Len(w) : SubSeq(w, c, c) = "'" THEN ESyntax
    ELSE IF \E c \in 1..Len(w) : SubSeq(w, c, c) = "."
         THEN Let(Find(w, "."), LAMBDA i :
                  IF i = 1 \/ i = Len(w) THEN ESyntax
                  ELSE EAttr(SubSeq(w, 1, i - 1), SubSeq(w, i + 1, Len(w))))
    ELSE EVar(w)

\* The expression made of the words ws, whose atoms are as.
JinjaExprOf(ws, as) ==
    IF Len(ws) = 1 THEN as[1]
    ELSE IF Len(ws) = 2 /\ ws[1] = "not"
         THEN IF as[2] = ESyntax THEN ESyntax ELSE ENot(as[2])
    ELSE IF Len(ws) = 3 /\ ws[2] \in JinjaOps
         THEN IF as[1] = ESyntax \/ as[3] = ESyntax THEN ESyntax
              ELSE EBin(ws[2], as[1], as[3])
    ELSE ESyntax

\* The expression between {{ and }}.
JinjaExpr(inner) ==
    Let(Words(inner), LAMBDA ws :
        Let([i \in DOMAIN ws |-> JinjaAtom(ws[i])],
            LAMBDA as : JinjaExprOf(ws, as)))

\* env.from_string: the parts of the template, or ok = FALSE on a syntax
\* error anywhere in it.  A template is split at "{{"; every piece after
\* the first must hold the "}}" that closes its expression.
RECURSIVE JinjaPieces(_, _)
JinjaPieces(pieces, i) ==
    IF i > Len(pieces) THEN [ok |-> TRUE, parts |-> <<>>]
    ELSE Let(Split(pieces[i], "}}"), LAMBDA halves :
             IF Len(halves) < 2 THEN [ok |-> FALSE]
             ELSE Let2(JinjaExpr(halves[1]), JinjaPieces(pieces, i + 1),
                       LAMBDA ex, more :
                           IF ex = ESyntax \/ ~more.ok THEN [ok |-> FALSE]
                           ELSE [ok |-> TRUE,
                                 parts |-> <<[expr |-> ex],
                                             [text |-> SubSeq(pieces[i],
                                                              Len(halves[1]) + 3,
                                                              Len(pieces[i]))]>>
                                           \o more.parts]))

JinjaCompile(s) ==
    Let(Split(s, "{{"), LAMBDA pieces :
        Let(JinjaPieces(pieces, 2), LAMBDA rest :
            IF ~rest.ok THEN [ok |-> FALSE]
            ELSE [ok |-> TRUE, parts |-> <<[text |-> pieces[1]]>> \o rest.parts]))

\* Evaluation of an expression: a value, Undefined, or the exception raised.
Raise(type, msg) == [t |-> "raise", exc |-> Exc(type, msg)]

UndefinedName(ast) == IF ast.e = "var" THEN ast.n ELSE "value"

\* The value of l op r for two values.
JinjaBinary(ast, l, r) ==
    IF l.t = "raise" THEN l
    ELSE IF r.t = "raise" THEN r
    ELSE IF ast.op = "==" THEN B(l = r)
    ELSE IF ast.op = "!=" THEN B(l # r)
    ELSE IF l.t = "undefined"
         THEN Raise("UndefinedError", "'" \o UndefinedName(ast.l) \o "' is undefined")
    ELSE IF r.t = "undefined"
         THEN Raise("UndefinedError", "'" \o UndefinedName(ast.r) \o "' is undefined")
    ELSE IF l.t = "int" /\ r.t = "int"
         THEN IF ast.op = "<" THEN B(l.n < r.n)
              ELSE IF ast.op = ">" THEN B(l.n > r.n)
              ELSE I(l.n + r.n)
    ELSE IF l.t = "str" /\ r.t = "str"
         THEN IF ast.op = "+" THEN S(l.s \o r.s)
              ELSE Raise("TypeError", "string ordering is not modelled")
    ELSE Raise("TypeError", "unsupported operand types for " \o ast.op)

RECURSIVE JinjaEval(_, _)
JinjaEval(ast, vs) ==
    CASE ast.e = "const" -> ast.v
      [] ast.e = "var" -> DictGet(vs, ast.n, Undefined)
      [] ast.e = "attr" ->
            IF ast.n \notin DOMAIN vs
            THEN Raise("UndefinedError", "'" \o ast.n \o "' is undefined")
            ELSE IF \E c \in 1..Len(ast.a) : SubSeq(ast.a, c, c) = "."
            THEN Raise("UndefinedError", "object has no attribute")
            ELSE IF vs[ast.n].t = "dict" /\ ast.a \in DOMAIN vs[ast.n].d
            THEN vs[ast.n].d[ast.a]
            ELSE Undefined
      [] ast.e = "not" ->
            Let(JinjaEval(ast.x, vs), LAMBDA x :
                IF x.t = "raise" THEN x ELSE B(~Truthy(x)))
      [] ast.e = "bin" ->
            Let2(JinjaEval(ast.l, vs), JinjaEval(ast.r, vs),
                 LAMBDA l, r : JinjaBinary(ast, l, r))

\* template.render(**variables): the parts rendered and joined.
RECURSIVE JinjaRender(_, _)
JinjaRender(parts, vs) ==
    Let(parts, LAMBDA ps :
        IF Len(ps) = 0 THEN [ok |-> TRUE, s |-> ""]
        ELSE Let(IF "expr" \in DOMAIN ps[1] THEN JinjaEval(ps[1].expr, vs)
                 ELSE S(ps[1].text),
                 LAMBDA v :
                     IF v.t = "raise" THEN [ok |-> FALSE, exc |-> v.exc]
                     ELSE Let(JinjaRender(Tail(ps), vs), LAMBDA r :
                              IF ~r.ok THEN r
                              ELSE [ok |-> TRUE, s |-> Str(v) \o r.s])))

\* MacroContext.render, lines 108-116: the outcome of env.from_string and
\* template.render as the method returns or raises it.
render_outcome(template, vs) ==
    IF ~template.ok
    THEN [ok |-> FALSE,
          exc |-> Exc("ValueError", "Template syntax error: unexpected token")]
    ELSE Let(JinjaRender(template.parts, vs), LAMBDA r :
             IF r.ok THEN r
             ELSE IF r.exc.type = "UndefinedError"
             THEN [ok |-> FALSE,
                   exc |-> Exc("ValueError", "Undefined variable: " \o r.exc.msg)]
             ELSE r)

\* MacroContext.render: [ok |-> TRUE, s |-> rendered] or [ok |-> FALSE, exc |-> e]
render(ctx, template_str) ==
    Let(template_str, LAMBDA t :
        IF \A i \in 1..(Len(t) - 1) : SubSeq(t, i, i + 1) # "{{"
        THEN [ok |-> TRUE, s |-> t]
        ELSE Let2(JinjaCompile(t), variables(ctx), render_outcome))

\* MacroContext.render_value: [ok |-> TRUE, v |-> value] or [ok |-> FALSE, exc |-> e]
RECURSIVE render_value(_, _)
RECURSIVE render_seq(_, _)
render_seq(ctx, l) ==
    Let(l, LAMBDA values :
        IF Len(values) = 0 THEN [ok |-> TRUE, v |-> <<>>]
        ELSE Let(render_value(ctx, values[1]), LAMBDA h :
                 IF ~h.ok THEN h
                 ELSE Let(render_seq(ctx, Tail(values)), LAMBDA r :
                          IF ~r.ok THEN r
                          ELSE [ok |-> TRUE, v |-> <<h.v>> \o r.v])))
render_value(ctx, value) ==
    Let2(ctx, value, LAMBDA c, val :
        CASE val.t = "str" ->
                Let(render(c, val.s), LAMBDA r :
                    IF r.ok THEN [ok |-> TRUE, v |-> S(r.s)] ELSE r)
          [] val.t = "dict" ->
                Let([k \in DOMAIN val.d |-> render_value(c, val.d[k])], LAMBDA rs :
                    IF \E k \in DOMAIN rs : ~rs[k].ok
                    THEN rs[CHOOSE k \in DOMAIN rs : ~rs[k].ok]
                    ELSE [ok |-> TRUE, v |-> D([k \in DOMAIN rs |-> rs[k].v])])
          [] val.t = "list" ->
                Let(render_seq(c, val.l), LAMBDA r :
                    IF r.ok THEN [ok |-> TRUE, v |-> L(r.v)] ELSE r)
          [] OTHER -> [ok |-> TRUE, v |-> val])

\* MacroContext.evaluate_condition, lines 150-159: the result for the
\* outcome r of render.
evaluate_condition_result(r) ==
    IF r.ok
    THEN Let(Lower(r.s), LAMBDA result :
             IF result \in {"true", "yes", "1"} THEN [ok |-> TRUE, b |-> TRUE]
             ELSE IF result \in {"false", "no", "0", "none", ""}
                  THEN [ok |-> TRUE, b |-> FALSE]
             ELSE [ok |-> TRUE, b |-> r.s # ""])
    ELSE IF r.exc.type = "ValueError" THEN [ok |-> TRUE, b |-> FALSE]
    ELSE [ok |-> FALSE, exc |-> r.exc]

\* MacroContext.evaluate_condition: [ok |-> TRUE, b |-> bool], or the
\* exception that is not a ValueError and so is not caught.
evaluate_condition(ctx, condition) ==
    Let(condition, LAMBDA cond :
        Let(render(ctx, IF \A i \in 1..(Len(cond) - 1) : SubSeq(cond, i, i + 1) # "{{"
                        THEN "{{ " \o cond \o " }}"
                        ELSE cond),
            evaluate_condition_result))

(***************************************************************************)
(* The script model (macro/parser.py).                                    *)
(***************************************************************************)
\* MacroParseError(message, file_path)
MacroParseError(message, file_path) ==
    [type |-> "MacroParseError",
     msg |-> IF Truthy(file_path) THEN message \o " in " \o Str(file_path)
             ELSE message,
     action_index |-> None, action_name |-> None, wrapped |-> 0,
     cause |-> "MacroParseError", file_path |-> file_path]

\* [v.strip() for v in value.split(",")]
RECURSIVE StripAll(_)
StripAll(l) ==
    Let(l, LAMBDA vs :
        IF Len(vs) = 0 THEN <<>> ELSE <<S(Strip(vs[1]))>> \o StripAll(Tail(vs)))

SplitComma(s) == StripAll(Split(s, ","))

\* int(value): [ok |-> TRUE, v |-> I(n)], or ok = FALSE with the exception
\* int raises (TypeError, ValueError, or OverflowError for an infinite float)
int(value) ==
    CASE value.t = "int" -> [ok |-> TRUE, v |-> value]
      [] value = Inf ->
            [ok |-> FALSE,
             exc |-> Exc("OverflowError", "cannot convert float infinity to integer")]
      [] value.t = "float" /\ value # Inf -> [ok |-> TRUE, v |-> I(value.n)]
      [] value.t = "bool" -> [ok |-> TRUE, v |-> I(IF value.b THEN 1 ELSE 0)]
      [] value.t = "str" /\ IsIntString(value.s) ->
            [ok |-> TRUE, v |-> I(IntOfString(value.s))]
      [] value.t = "str" /\ ~IsIntString(value.s) ->
            [ok |-> FALSE,
             exc |-> Exc("ValueError", "invalid literal for int() with base 10: "
                                       \o Repr(value))]
      [] OTHER ->
            [ok |-> FALSE,
             exc |-> Exc("TypeError", "int() argument must be a string or a number")]

\* float(value)
float(value) ==
    CASE value.t = "float" -> [ok |-> TRUE, v |-> value]
      [] value.t = "int" -> [ok |-> TRUE, v |-> F(value.n)]
      [] value.t = "bool" -> [ok |-> TRUE, v |-> F(IF value.b THEN 1 ELSE 0)]
      [] value.t = "str" /\ IsIntString(value.s) ->
            [ok |-> TRUE, v |-> F(IntOfString(value.s))]
      [] value.t = "str" /\ ~IsIntString(value.s) ->
            [ok |-> FALSE,
             exc |-> Exc("ValueError", "could not convert string to float: "
                                       \o Repr(value))]
      [] OTHER ->
            [ok |-> FALSE,
             exc |-> Exc("TypeError", "float() argument must be a string or a number")]

\* MacroParameter(name, type, required, default)
MacroParameter(name, type, required, default) ==
    [name |-> name, type |-> type, required |-> required, default |-> default]

\* Variant of validate that takes a required parameter for missing whether
\* or not it has a default.
validate_ignoring_default(self, value) ==
    IF value = None
    THEN IF Truthy(self.required)
         THEN [ok |-> FALSE,
               exc |-> Exc("ValueError", "Required parameter '" \o Str(self.name)
                                         \o "' not provided")]
         ELSE [ok |-> TRUE, v |-> self.default]
    ELSE CASE self.type = S("string") -> [ok |-> TRUE, v |-> S(Str(value))]
           [] self.type = S("integer") ->
                Let(int(value), LAMBDA r :
                    IF r.ok \/ r.exc.type \notin {"TypeError", "ValueError"} THEN r
                    ELSE [ok |-> FALSE,
                          exc |-> Exc("ValueError", "Parameter '" \o Str(self.name)
                                                    \o "' must be an integer")])
           [] self.type = S("float") ->
                Let(float(value), LAMBDA r :
                    IF r.ok \/ r.exc.type \notin {"TypeError", "ValueError"} THEN r
                    ELSE [ok |-> FALSE,
                          exc |-> Exc("ValueError", "Parameter '" \o Str(self.name)
                                                    \o "' must be a float")])
           [] self.type = S("boolean") ->
                IF value.t = "bool" THEN [ok |-> TRUE, v |-> value]
                ELSE IF value.t = "str" /\ Lower(value.s) \in {"true", "yes", "1", "on"}
                     THEN [ok |-> TRUE, v |-> B(TRUE)]
                ELSE IF value.t = "str" /\ Lower(value.s) \in {"false", "no", "0", "off"}
                     THEN [ok |-> TRUE, v |-> B(FALSE)]
                ELSE [ok |-> FALSE,
                      exc |-> Exc("ValueError", "Parameter '" \o Str(self.name)
                                                \o "' must be a boolean")]
           [] self.type = S("list") ->
                IF value.t = "list" THEN [ok |-> TRUE, v |-> value]
                ELSE IF value.t = "str"
                     THEN [ok |-> TRUE, v |-> L(SplitComma(value.s))]
                ELSE [ok |-> FALSE,
                      exc |-> Exc("ValueError", "Parameter '" \o Str(self.name)
                                                \o "' must be a list")]
           [] OTHER -> [ok |-> TRUE, v |-> value]

\* MacroParameter.validate
validate(self, value) ==
    IF value = None
    THEN IF Truthy(self.required) /\ self.default = None
         THEN [ok |-> FALSE,
               exc |-> Exc("ValueError", "Required parameter '" \o Str(self.name)
                                         \o "' not provided")]
         ELSE [ok |-> TRUE, v |-> self.default]
    ELSE CASE self.type = S("string") -> [ok |-> TRUE, v |-> S(Str(value))]
           [] self.type = S("integer") ->
                Let(int(value), LAMBDA r :
                    IF r.ok \/ r.exc.type \notin {"TypeError", "ValueError"} THEN r
                    ELSE [ok |-> FALSE,
                          exc |-> Exc("ValueError", "Parameter '" \o Str(self.name)
                                                    \o "' must be an integer")])
           [] self.type = S("float") ->
                Let(float(value), LAMBDA r :
                    IF r.ok \/ r.exc.type \notin {"TypeError", "ValueError"} THEN r
                    ELSE [ok |-> FALSE,
                          exc |-> Exc("ValueError", "Parameter '" \o Str(self.name)
                                                    \o "' must be a float")])
           [] self.type = S("boolean") ->
                IF value.t = "bool" THEN [ok |-> TRUE, v |-> value]
                ELSE IF value.t = "str" /\ Lower(value.s) \in {"true", "yes", "1", "on"}
                     THEN [ok |-> TRUE, v |-> B(TRUE)]
                ELSE IF value.t = "str" /\ Lower(value.s) \in {"false", "no", "0", "off"}
                     THEN [ok |-> TRUE, v |-> B(FALSE)]
                ELSE [ok |-> FALSE,
                      exc |-> Exc("ValueError", "Parameter '" \o Str(self.name)
                                                \o "' must be a boolean")]
           [] self.type = S("list") ->
                IF value.t = "list" THEN [ok |-> TRUE, v |-> value]
                ELSE IF value.t = "str"
                     THEN [ok |-> TRUE, v |-> L(SplitComma(value.s))]
                ELSE [ok |-> FALSE,
                      exc |-> Exc("ValueError", "Parameter '" \o Str(self.name)
                                                \o "' must be a list")]
           [] OTHER -> [ok |-> TRUE, v |-> value]

\* MacroAction.from_dict(data, index), data a dict: the keys action, if and
\* name leave the arguments.
MacroAction_from_dict(data, index) ==
    IF "action" \notin DOMAIN data
    THEN [ok |-> FALSE,
          exc |-> MacroParseError("Action at index " \o IntStr(index)
                                  \o " missing 'action' field", None)]
    ELSE [ok |-> TRUE,
          v |-> [action |-> data["action"],
                 args |-> DictDrop(data, {"action", "if", "name"}),
                 condition |-> DictGet(data, "if", None),
                 name |-> DictGet(data, "name", None)]]

\* The loop of Macro.from_dict over data["actions"], from position i on.
RECURSIVE from_dict_actions(_, _, _)
from_dict_actions(l, i, file_path) ==
    IF i > Len(l) THEN [ok |-> TRUE, v |-> <<>>]
    ELSE IF l[i].t # "dict"
    THEN [ok |-> FALSE,
          exc |-> MacroParseError("Action at index " \o IntStr(i - 1)
                                  \o " must be a dictionary", file_path)]
    ELSE Let(MacroAction_from_dict(l[i].d, i - 1), LAMBDA a :
             IF ~a.ok THEN a
             ELSE Let(from_dict_actions(l, i + 1, file_path), LAMBDA r :
                      IF ~r.ok THEN r ELSE [ok |-> TRUE, v |-> <<a.v>> \o r.v]))

\* The loop of Macro.from_dict over data["parameters"].
RECURSIVE from_dict_parameters(_, _, _)
from_dict_parameters(l, i, file_path) ==
    IF i > Len(l) THEN [ok |-> TRUE, v |-> <<>>]
    ELSE Let2(l[i], from_dict_parameters(l, i + 1, file_path), LAMBDA pd, r :
             IF pd.t = "dict" /\ "name" \notin DOMAIN pd.d
             THEN [ok |-> FALSE,
                   exc |-> MacroParseError("Parameter missing 'name' field", file_path)]
             ELSE IF ~r.ok THEN r
             ELSE IF pd.t = "str"
             THEN [ok |-> TRUE,
                   v |-> <<MacroParameter(pd, S("string"), B(TRUE), None)>> \o r.v]
             ELSE IF pd.t = "dict"
             THEN [ok |-> TRUE,
                   v |-> <<MacroParameter(pd.d["name"],
                                          DictGet(pd.d, "type", S("string")),
                                          DictGet(pd.d, "required", B(TRUE)),
                                          DictGet(pd.d, "default", None))>> \o r.v]
             ELSE r)

\* Macro.from_dict(data, file_path), data a dict
Macro_from_dict(data, file_path) ==
    IF "name" \notin DOMAIN data
    THEN [ok |-> FALSE, exc |-> MacroParseError("Macro missing 'name' field", file_path)]
    ELSE LET \* what a for loop over v iterates, or the TypeError of iter(v)
             items(v) ==
                 CASE v.t = "list" -> [ok |-> TRUE, v |-> v.l]
                   [] v.t = "str" ->
                         [ok |-> TRUE,
                          v |-> [i \in 1..Len(v.s) |-> S(SubSeq(v.s, i, i))]]
                   [] v.t = "dict" -> [ok |-> TRUE, v |-> DictKeys(DOMAIN v.d)]
                   [] OTHER ->
                         [ok |-> FALSE,
                          exc |-> Exc("TypeError", "object is not iterable")]
         IN Let2(items(DictGet(data, "parameters", L(<<>>))),
                 items(DictGet(data, "actions", L(<<>>))),
                 LAMBDA pl, al :
           IF ~pl.ok THEN pl
           ELSE
           Let(from_dict_parameters(pl.v, 1, file_path), LAMBDA ps :
                  IF ~ps.ok THEN ps
                  ELSE IF ~al.ok THEN al
                  ELSE
           Let(from_dict_actions(al.v, 1, file_path), LAMBDA as :
                  IF ~as.ok THEN as
                  ELSE [ok |-> TRUE,
                        v |-> [name |-> data["name"],
                               parameters |-> ps.v,
                               vars |-> DictGet(data, "vars", D(EmptyDict)).d,
                               actions |-> as.v,
                               file_path |-> file_path]])))

\* Macro.validate_params: the parameters in declaration order, from i on.
RECURSIVE validate_params_from(_, _, _)
validate_params_from(parameters, params, i) ==
    IF i > Len(parameters) THEN [ok |-> TRUE, v |-> EmptyDict]
    ELSE Let2(parameters[i],
              validate(parameters[i], DictGet(params, Str(parameters[i].name), None)),
              LAMBDA param, one :
                  IF ~one.ok THEN one
                  ELSE Let(validate_params_from(parameters, params, i + 1), LAMBDA r :
                           IF ~r.ok THEN r
                           ELSE [ok |-> TRUE,
                                 v |-> DictPut(r.v, Str(param.name),
                                               IF \E j \in (i + 1)..Len(parameters) :
                                                     parameters[j].name = param.name
                                               THEN r.v[Str(param.name)]
                                               ELSE one.v)]))

validate_params(self, params) ==
    Let2(self.parameters, params, LAMBDA parameters, ps :
        validate_params_from(parameters, ps, 1))

(***************************************************************************)
(* The macros directory: the files the runs can load.  A file holds the   *)
(* data yaml.safe_load returns for it, or InvalidYaml when it raises.     *)
(***************************************************************************)
InvalidYaml == [t |-> "yaml_error"]

File(path, data) == [path |-> path, data |-> data]

Doc(name, parameters, vars_, actions) ==
    D([name |-> S(name), parameters |-> L(parameters), vars |-> D(vars_),
       actions |-> L(actions)])

\* An action entry with further keys (name, if, error_as, ...).
With(entry, keys) == D(keys @@ entry.d)

Log(message) == D([action |-> S("log"), message |-> S(message)])
Fail(message) == D([action |-> S("fail"), message |-> S(message)])
Break == D([action |-> S("break")])
Continue == D([action |-> S("continue")])
Call(macro) == D([action |-> S("call"), macro |-> S(macro)])
SetVar(name, value) == D([action |-> S("set-var"), name |-> S(name), value |-> value])
Return(value) == D([action |-> S("return"), value |-> value])
If(condition, then, else) ==
    D([action |-> S("if"), condition |-> S(condition), then |-> L(then),
       else |-> L(else)])
Repeat(count, actions) ==
    D([action |-> S("repeat"), count |-> count, actions |-> L(actions)])
While(condition, max_iterations, actions) ==
    D([action |-> S("while"), condition |-> S(condition),
       max_iterations |-> I(max_iterations), actions |-> L(actions)])
Foreach(items, actions) ==
    D([action |-> S("foreach"), items |-> items, actions |-> L(actions)])
Try(actions, catch, finally) ==
    D([action |-> S("try"), actions |-> L(actions), catch |-> L(catch),
       finally |-> L(finally)])
TryFinally(actions, finally) ==
    D([action |-> S("try"), actions |-> L(actions), finally |-> L(finally)])

\* Scripts of parameters and calls.
CallScripts ==
    << File("greet.yaml",
            Doc("greet",
                <<D([name |-> S("user"), type |-> S("string"), required |-> B(TRUE)])>>,
                EmptyDict,
                <<D([action |-> S("delay"), seconds |-> I(1)])>>)),
       File("typed.yaml",
            Doc("typed",
                <<D([name |-> S("count"), type |-> S("integer")])>>,
                EmptyDict,
                <<Repeat(S("{{ count }}"), <<Log("pass {{ i }}")>>)>>)),
       File("rec.yaml", Doc("rec", <<>>, EmptyDict, <<Call("rec")>>)),
       File("rec_try.yaml",
            Doc("rec_try", <<>>, EmptyDict,
                <<Try(<<Call("rec_try")>>, <<Log("caught {{ error }}")>>, <<>>)>>)),
       File("call_ok.yaml",
            Doc("call_ok", <<>>, [user |-> S("bob")],
                <<With(Call("greet"), [params |-> D([user |-> S("amy")])]),
                  Log("after {{ user }}")>>)),
       File("call_bad.yaml",
            Doc("call_bad", <<>>, EmptyDict, <<Log("before"), Call("greet")>>)),
       File("call_missing.yaml",
            Doc("call_missing", <<>>, EmptyDict, <<Call("nowhere")>>)),
       File("call_noname.yaml",
            Doc("call_noname", <<>>, EmptyDict, <<D([action |-> S("call")])>>)),
       File("opt.yaml",
            Doc("opt",
                <<D([name |-> S("mode"), required |-> B(FALSE),
                     default |-> S("fast")]),
                  D([name |-> S("user"), required |-> B(FALSE)])>>,
                [level |-> I(1)],
                <<Log("{{ mode }} {{ user }} {{ token }} {{ home }} {{ i }}")>>)),
       File("call_iso.yaml",
            Doc("call_iso",
                <<D([name |-> S("token"), required |-> B(FALSE),
                     default |-> S("t0")])>>,
                [user |-> S("bob"), home |-> S("/h")],
                <<With(Repeat(I(1),
                              <<With(Call("opt"),
                                     [params |-> D([user |-> S("{{ user }}y"),
                                                    extra |-> S("x")])])>>),
                       [as |-> S("token")])>>)),
       File("call_loop.yaml",
            Doc("call_loop", <<>>, EmptyDict,
                <<Repeat(I(2), <<Call("stray_break"), Log("after call")>>),
                  Log("after loop")>>)),
       File("call_frame.yaml",
            Doc("call_frame", <<>>, [i |-> S("mine")],
                <<With(Call("typed"), [params |-> D([count |-> I(1)])]),
                  Call("w_stop"),
                  Log("{{ i }} {{ _return_value }}"),
                  Call("failing")>>)),
       File("call_fail.yaml",
            Doc("call_fail", <<>>, EmptyDict,
                <<Repeat(I(2), <<If("True", <<Call("failing"), Log("unreached")>>, <<>>),
                                 Log("unreached")>>),
                  Log("unreached")>>))
    >>

\* Scripts of try / catch / finally.
TryScripts ==
    << File("try_ok.yaml",
            Doc("try_ok", <<>>, EmptyDict,
                <<TryFinally(<<Log("body")>>, <<Log("cleanup")>>), Log("after")>>)),
       File("try_catch.yaml",
            Doc("try_catch", <<>>, EmptyDict,
                <<With(Try(<<Fail("boom")>>, <<Log("{{ err }}")>>, <<Log("cleanup")>>),
                       [error_as |-> S("err")]),
                  Log("after")>>)),
       File("try_nocatch.yaml",
            Doc("try_nocatch", <<>>, EmptyDict,
                <<Log("before"),
                  With(TryFinally(<<Fail("boom")>>, <<Log("cleanup")>>),
                       [name |-> S("guard")]),
                  Log("after")>>)),
       File("try_catch_raises.yaml",
            Doc("try_catch_raises", <<>>, EmptyDict,
                <<Try(<<Fail("first")>>, <<Fail("second")>>, <<Log("cleanup")>>),
                  Log("after")>>)),
       File("try_break.yaml",
            Doc("try_break", <<>>, EmptyDict,
                <<Repeat(I(2), <<TryFinally(<<Break>>, <<Log("cleanup")>>),
                                 Log("unreached")>>),
                  Log("after")>>)),
       File("try_catch_continue.yaml",
            Doc("try_catch_continue", <<>>, EmptyDict,
                <<Repeat(I(2), <<Try(<<Fail("boom")>>, <<Continue>>,
                                     <<Log("cleanup")>>)>>)>>)),
       File("try_finally_break.yaml",
            Doc("try_finally_break", <<>>, EmptyDict,
                <<Repeat(I(1), <<TryFinally(<<Fail("boom")>>, <<Break>>)>>),
                  Log("after")>>)),
       File("try_finally_fail.yaml",
            Doc("try_finally_fail", <<>>, EmptyDict,
                <<TryFinally(<<Log("body")>>, <<Fail("late")>>)>>)),
       File("try_setvar.yaml",
            Doc("try_setvar", <<>>, EmptyDict,
                <<Try(<<SetVar("x", I(1))>>, <<Log("{{ error }}")>>, <<>>),
                  Log("x is {{ x }}")>>)),
       File("try_unknown.yaml",
            Doc("try_unknown", <<>>, EmptyDict,
                <<Try(<<D([action |-> S("nope")]), Log("unreached")>>,
                      <<Log("caught {{ error }}")>>, <<>>),
                  Log("after")>>)),
       File("try_stray.yaml",
            Doc("try_stray", <<>>, EmptyDict,
                <<With(Try(<<Log("body"), If("True", <<Continue>>, <<>>),
                             Log("unreached")>>,
                           <<Log("caught")>>, <<Log("cleanup")>>),
                       [error_as |-> S("err")]),
                  Log("after")>>)),
       File("nested_signal.yaml",
            Doc("nested_signal", <<>>, EmptyDict,
                <<Repeat(I(2),
                         <<Foreach(S("a, b"),
                                   <<Try(<<If("i == 0", <<Break, Log("unreached")>>,
                                              <<Continue>>),
                                           Log("unreached")>>,
                                         <<Log("caught")>>, <<Log("cleanup")>>),
                                     Log("rest")>>),
                           Log("after inner")>>),
                  Log("after outer")>>))
    >>

\* Scripts of failing, unknown, conditional and wrongly templated actions.
ErrorScripts ==
    << File("failing.yaml",
            Doc("failing", <<>>, EmptyDict, <<Log("before"), Fail("stop")>>)),
       File("unknown.yaml",
            Doc("unknown", <<>>, EmptyDict,
                <<Log("before"), D([action |-> S("nope"), name |-> S("step")]),
                  Log("after")>>)),
       File("wrap.yaml",
            Doc("wrap", <<>>, EmptyDict,
                <<Log("before"),
                  With(Repeat(I(1), <<With(SetVar("x", I(1)), [name |-> S("inner")])>>),
                       [name |-> S("outer")])>>)),
       File("render_top.yaml",
            Doc("render_top", <<>>, EmptyDict, <<Log("{{ invalid syntax }}")>>)),
       File("render_nested.yaml",
            Doc("render_nested", <<>>, EmptyDict,
                <<Log("before"),
                  If("True", <<Log("{{ missing.attr }}")>>, <<>>)>>)),
       File("skip.yaml",
            Doc("skip", <<>>, [n |-> I(1)],
                <<Log("before"),
                  With(Log("{{ invalid syntax }}"), [if |-> S("false")]),
                  D([action |-> S("nope"), if |-> S("missing.attr")]),
                  With(Fail("stop"), [if |-> S("{{ n == 2 }}")]),
                  With(Return(S("seen")), [if |-> S("n == 1")]),
                  With(Log("unconditional"), [if |-> B(FALSE)])>>)),
       File("cond_raise.yaml",
            Doc("cond_raise", <<>>, [name |-> S("john")],
                <<With(Log("x"), [if |-> S("name < 1")]), Log("after")>>)),
       File("stray_break.yaml",
            Doc("stray_break", <<>>, EmptyDict, <<Log("before"), Break>>)),
       File("unknown_args.yaml",
            Doc("unknown_args", <<>>, EmptyDict,
                <<D([action |-> S("nope"), message |-> S("{{ invalid syntax }}")]),
                  Log("after")>>)),
       File("late_parse.yaml",
            Doc("late_parse", <<>>, EmptyDict,
                <<Log("before"),
                  Repeat(I(1), <<Log("inside"), D([message |-> S("no kind")])>>),
                  Log("after")>>)),
       File("empty.yaml",
            Doc("", <<>>, EmptyDict,
                <<D([action |-> S(""), if |-> S("false")]),
                  Repeat(I(1), <<D([action |-> S("")])>>)>>))
    >>

\* Scripts of loops and branches.
LoopScripts ==
    << File("w_ceiling.yaml",
            Doc("w_ceiling", <<>>, EmptyDict,
                <<While("True", 3, <<Log("pass")>>), Log("after")>>)),
       File("w_continue.yaml",
            Doc("w_continue", <<>>, EmptyDict,
                <<While("True", 2, <<Continue, Log("unreached")>>)>>)),
       File("w_break.yaml",
            Doc("w_break", <<>>, EmptyDict,
                <<While("True", 5, <<Break>>), Log("after")>>)),
       File("w_empty.yaml",
            Doc("w_empty", <<>>, EmptyDict,
                <<While("True", 3, <<>>), Log("after")>>)),
       File("w_zero.yaml",
            Doc("w_zero", <<>>, EmptyDict, <<While("True", 0, <<Log("pass")>>)>>)),
       File("w_default.yaml",
            Doc("w_default", <<>>, EmptyDict,
                <<D([action |-> S("while"), condition |-> S("True"),
                     actions |-> L(<<S("not an action")>>)])>>)),
       File("w_stop.yaml",
            Doc("w_stop", <<>>, EmptyDict,
                <<While("not _return_value", 5, <<Return(B(TRUE))>>), Log("after")>>)),
       File("w_stop_tpl.yaml",
            Doc("w_stop_tpl", <<>>, EmptyDict,
                <<While("{{ not _return_value }}", 3, <<Return(B(TRUE))>>),
                  Log("after")>>)),
       File("w_fail.yaml",
            Doc("w_fail", <<>>, EmptyDict, <<While("True", 5, <<Fail("stop")>>)>>)),
       File("foreach.yaml",
            Doc("foreach", <<>>, EmptyDict,
                <<With(Foreach(S("a, b"), <<Log("{{ k }} {{ item }}")>>),
                       [index_as |-> S("k")]),
                  Foreach(L(<<I(1), I(2)>>), <<Break>>)>>)),
       File("foreach_more.yaml",
            Doc("foreach_more", <<>>, [item |-> S("mine")],
                <<Foreach(L(<<>>), <<Log("unreached")>>),
                  With(Foreach(S(""), <<Log("unreached")>>), [index_as |-> S("k")]),
                  With(Foreach(L(<<S("x"), S("y"), S("z")>>),
                               <<If("k == 1", <<Continue>>, <<>>),
                                 Log("{{ k }} {{ e }}")>>),
                       [as |-> S("e"), index_as |-> S("k")]),
                  Foreach(S(" p , q"), <<Log("{{ item }}")>>)>>)),
       File("returns.yaml",
            Doc("returns", <<>>, [x |-> I(1), _return_value |-> S("default")],
                <<Return(S("{{ x }}")),
                  Log("{{ _return_value }}"),
                  Repeat(I(2), <<Return(L(<<I(2)>>)), Log("pass")>>),
                  If("True", <<D([action |-> S("return")]), Log("then")>>, <<>>),
                  Log("after")>>)),
       File("nested_tpl.yaml",
            Doc("nested_tpl", <<>>, [sep |-> S("-")],
                <<Repeat(I(2), <<>>),
                  Foreach(L(<<S("a")>>), <<>>),
                  Repeat(I(3), <<Return(S("{{ _return_value }}{{ i }}"))>>),
                  Foreach(L(<<S("a"), S("b")>>),
                          <<If("True",
                               <<Return(S("{{ _return_value }}{{ sep }}{{ item }}"))>>,
                               <<>>)>>)>>)),
       File("ifelse.yaml",
            Doc("ifelse", <<>>, [n |-> I(1)],
                <<If("n == 1", <<Log("then")>>, <<Log("else")>>),
                  If("{{ n > 1 }}", <<Log("then")>>, <<Log("else")>>),
                  If("missing.attr", <<Log("then")>>, <<>>)>>)),
       File("if_tpl.yaml",
            Doc("if_tpl", <<>>, [user |-> S("bob")],
                <<If("user", <<Log("then")>>, <<Log("else")>>),
                  If("{{ user }}", <<Log("then")>>, <<Log("else")>>)>>)),
       File("shell.yaml",
            Doc("shell", <<>>, EmptyDict,
                <<D([action |-> S("shell"), command |-> S("ls"),
                     store_as |-> S("out")]),
                  Log("got {{ out }}")>>))
    >>

Directory == CallScripts \o TryScripts \o ErrorScripts \o LoopScripts

PathsOf(directory) == {directory[i].path : i \in DOMAIN directory}

\* The data of the file at `path`.
FileDataOf(directory, path) ==
    directory[CHOOSE i \in DOMAIN directory : directory[i].path = path].data

\* The parameters a run of the file may be started with.
ParamChoices(path) ==
    CASE path = "greet.yaml" -> {EmptyDict, [user |-> S("john")]}
      [] path = "typed.yaml" ->
            {EmptyDict, [count |-> S("2")], [count |-> I(1)], [count |-> S("abc")],
             [count |-> S("3")], [count |-> I(0)], [count |-> I(-1)]}
      [] OTHER -> {EmptyDict}

\* load_macro(file_path), the files being those of `directory`
load_macro_of(directory, path) ==
    IF path \notin PathsOf(directory)
    THEN [ok |-> FALSE, exc |-> Exc("FileNotFoundError", "Macro file not found: " \o path)]
    ELSE Let(FileDataOf(directory, path), LAMBDA data :
             IF data = InvalidYaml
             THEN [ok |-> FALSE, exc |-> MacroParseError("Invalid YAML", S(path))]
             ELSE IF data.t # "dict"
             THEN [ok |-> FALSE,
                   exc |-> MacroParseError("Macro must be a YAML dictionary", S(path))]
             ELSE Macro_from_dict(data.d, S(path)))

load_macro(path) == load_macro_of(Directory, path)

HasSuffix(s, suffix) ==
    Len(s) >= Len(suffix) /\ SubSeq(s, Len(s) - Len(suffix) + 1, Len(s)) = suffix

\* load_macros(directory): the *.yaml files in listing order, then the *.yml
\* files; a file on which load_macro raises MacroParseError or
\* FileNotFoundError is left out, any other exception leaves load_macros; a
\* later file replaces an earlier one of the same macro name.
load_macros_of(directory) ==
    LET turn(i) == IF HasSuffix(directory[i].path, ".yaml") THEN i
                   ELSE Len(directory) + i
        caught(r) == r.exc.type \in {"MacroParseError", "FileNotFoundError"}
    IN Let2([i \in DOMAIN directory |-> load_macro_of(directory, directory[i].path)],
            {i \in DOMAIN directory : \/ HasSuffix(directory[i].path, ".yaml")
                                      \/ HasSuffix(directory[i].path, ".yml")},
            LAMBDA loaded, globbed :
        IF \E i \in globbed : ~loaded[i].ok /\ ~caught(loaded[i])
        THEN loaded[CHOOSE i \in globbed :
                       /\ ~loaded[i].ok /\ ~caught(loaded[i])
                       /\ \A j \in globbed :
                             ~loaded[j].ok /\ ~caught(loaded[j]) => turn(i) <= turn(j)]
        ELSE Let({i \in globbed : loaded[i].ok}, LAMBDA taken :
               [ok |-> TRUE,
                v |-> [name \in {Str(loaded[i].v.name) : i \in taken} |->
                         loaded[CHOOSE i \in taken :
                            /\ loaded[i].v.name = S(name)
                            /\ \A j \in taken :
                                  loaded[j].v.name = S(name) => turn(j) <= turn(i)].v]]))

load_macros == load_macros_of(Directory)

\* find_macro(name, directory): [ok |-> TRUE, v |-> macro or None], or the
\* exception load_macro raises on the file named after the macro, or the one
\* that leaves load_macros.
find_macro(name) ==
    Let2(load_macro(name \o ".yaml"), load_macro(name \o ".yml"), LAMBDA yaml, yml :
        IF (name \o ".yaml") \in PathsOf(Directory) /\ ~yaml.ok THEN yaml
        ELSE IF (name \o ".yaml") \in PathsOf(Directory) /\ yaml.v.name = S(name) THEN yaml
        ELSE IF (name \o ".yml") \in PathsOf(Directory) /\ ~yml.ok THEN yml
        ELSE IF (name \o ".yml") \in PathsOf(Directory) /\ yml.v.name = S(name) THEN yml
        ELSE Let(load_macros, LAMBDA macros :
                 IF ~macros.ok THEN macros
                 ELSE [ok |-> TRUE, v |-> DictGet(macros.v, name, None)]))

(***************************************************************************)
(* The interpreter (macro/executor.py).                                   *)
(***************************************************************************)
MAX_CALL_DEPTH == 50

DefaultMaxIterations == 1000

\* The names registered with @register_action.
ACTION_HANDLERS ==
    {"set-var", "delay", "notify", "shell", "clipboard.get", "clipboard.set",
     "mouse.move", "mouse.click", "mouse.click-at", "mouse.drag", "mouse.scroll",
     "mouse.click-image", "keyboard.type", "keyboard.key", "keyboard.hotkey",
     "screen.capture", "screen.find", "screen.wait-for", "screen.exists",
     "if", "repeat", "while", "foreach", "try", "break", "continue", "fail",
     "log", "call", "return"}

ReservedKeys == {"then", "else", "actions", "catch", "finally"}

\* Variant of _render_args that renders the value of every key.
_render_args_all(args, ctx) ==
    Let([k \in DOMAIN args |-> render_value(ctx, args[k])],
        LAMBDA rs :
            IF \E k \in DOMAIN rs : ~rs[k].ok
            THEN rs[CHOOSE k \in DOMAIN rs : ~rs[k].ok]
            ELSE [ok |-> TRUE, v |-> [k \in DOMAIN rs |-> rs[k].v]])

\* MacroExecutor._render_args
_render_args(args, ctx) ==
    Let([k \in DOMAIN args |->
            IF k \in ReservedKeys THEN [ok |-> TRUE, v |-> args[k]]
            ELSE render_value(ctx, args[k])],
        LAMBDA rs :
            IF \E k \in DOMAIN rs : ~rs[k].ok
            THEN rs[CHOOSE k \in DOMAIN rs : ~rs[k].ok]
            ELSE [ok |-> TRUE, v |-> [k \in DOMAIN rs |-> rs[k].v]])

\* MacroExecutor._parse_actions: the loop from position i on; entries that
\* are not dicts are left out.
RECURSIVE _parse_actions_from(_, _)
_parse_actions_from(l, i) ==
    IF i > Len(l) THEN [ok |-> TRUE, v |-> <<>>]
    ELSE IF l[i].t # "dict" THEN _parse_actions_from(l, i + 1)
    ELSE Let(MacroAction_from_dict(l[i].d, i - 1), LAMBDA a :
             IF ~a.ok THEN a
             ELSE Let(_parse_actions_from(l, i + 1), LAMBDA r :
                      IF ~r.ok THEN r ELSE [ok |-> TRUE, v |-> <<a.v>> \o r.v]))

_parse_actions(action_data) ==
    Let(action_data.l, LAMBDA l : _parse_actions_from(l, 1))

\* Variant of _execute_action_except without the clause that re-raises the
\* loop signals: they are wrapped as every other exception is.
_execute_action_except_signals_wrapped(e, index, name) ==
    IF e.type = "MacroExecutionError" THEN e
    ELSE MacroExecutionError(e.msg, I(index), name, "handler", e.wrapped + 1)

\* Variant of _execute_action_except that wraps execution errors again.
_execute_action_except_rewrap(e, index, name) ==
    IF IsLoopSignal(e) THEN e
    ELSE MacroExecutionError(e.msg, I(index), name, "handler", e.wrapped + 1)

\* The except clauses of _execute_action: what leaves it when the handler
\* of the action at `index` raised e.
_execute_action_except(e, index, name) ==
    IF IsLoopSignal(e) THEN e
    ELSE IF e.type = "MacroExecutionError" THEN e
    ELSE MacroExecutionError(e.msg, I(index), name, "handler", e.wrapped + 1)

\* Variant of execute_begin that builds the context from the parameters as
\* given, without validate_params.
execute_begin_unvalidated(_call_depth, macro, params) ==
    IF _call_depth >= MAX_CALL_DEPTH
    THEN [ok |-> FALSE,
          exc |-> MacroExecutionError(
                      "Maximum call depth exceeded (possible infinite recursion)",
                      None, None, "depth", 0)]
    ELSE [ok |-> TRUE, ctx |-> MacroContext(params, macro.vars)]

\* Variant of execute_begin that keeps, next to the validated parameters, the
\* supplied parameters the macro does not declare.
execute_begin_passthrough(_call_depth, macro, params) ==
    IF _call_depth >= MAX_CALL_DEPTH
    THEN [ok |-> FALSE,
          exc |-> MacroExecutionError(
                      "Maximum call depth exceeded (possible infinite recursion)",
                      None, None, "depth", 0)]
    ELSE Let(validate_params(macro, params), LAMBDA validated_params :
             IF ~validated_params.ok THEN validated_params
             ELSE [ok |-> TRUE,
                   ctx |-> MacroContext(validated_params.v @@ params, macro.vars)])

\* Variant of execute_begin whose depth check lets one more level run.
execute_begin_deeper(_call_depth, macro, params) ==
    IF _call_depth > MAX_CALL_DEPTH
    THEN [ok |-> FALSE,
          exc |-> MacroExecutionError(
                      "Maximum call depth exceeded (possible infinite recursion)",
                      None, None, "depth", 0)]
    ELSE Let(validate_params(macro, params), LAMBDA validated_params :
             IF ~validated_params.ok THEN validated_params
             ELSE [ok |-> TRUE, ctx |-> MacroContext(validated_params.v, macro.vars)])

\* The first statements of execute for an executor of the given depth:
\* the depth check, the validation and the new context.
execute_begin(_call_depth, macro, params) ==
    IF _call_depth >= MAX_CALL_DEPTH
    THEN [ok |-> FALSE,
          exc |-> MacroExecutionError(
                      "Maximum call depth exceeded (possible infinite recursion)",
                      None, None, "depth", 0)]
    ELSE Let(validate_params(macro, params), LAMBDA validated_params :
             IF ~validated_params.ok THEN validated_params
             ELSE [ok |-> TRUE, ctx |-> MacroContext(validated_params.v, macro.vars)])

\* Variant of create_child_executor that hands its own depth to the child.
create_child_executor_flat(executor) == [_call_depth |-> executor._call_depth]

\* MacroExecutor.create_child_executor
create_child_executor(executor) == [_call_depth |-> executor._call_depth + 1]

(***************************************************************************)
(* The machine.  `stack` is the Python call stack, innermost frame last:  *)
(* an "execute" frame for each running execute, a "list" frame for each   *)
(* running execute_actions, and between two lists the frame of the        *)
(* flow-control handler that runs the inner one (with the index and name  *)
(* of its action, which the _execute_action around it holds).  `ctxs`     *)
(* holds the context of each running execute.  `log` is the history of    *)
(* what the run did.  `heap` holds the dict objects of the contexts that   *)
(* are used directly, outside a run (see the library calls below).        *)
(***************************************************************************)
ExecuteFrame(depth) == [k |-> "execute", _call_depth |-> depth]
ListFrame(actions) == [k |-> "list", actions |-> actions, i |-> 1]

Top == stack[Len(stack)]
Pop(n) == SubSeq(stack, 1, Len(stack) - n)
Advance(stk) == [stk EXCEPT ![Len(stk)].i = @ + 1]
Ctx == ctxs[Len(ctxs)]
SetCtx(c) == [ctxs EXCEPT ![Len(ctxs)] = c]

\* The executor whose execute is running: the innermost "execute" frame.
Executor ==
    stack[CHOOSE i \in DOMAIN stack :
            /\ stack[i].k = "execute"
            /\ \A j \in (i + 1)..Len(stack) : stack[j].k # "execute"]

Ev(ev, k, index) ==
    [ev |-> ev, k |-> k, index |-> index, depth |-> Executor._call_depth]

\* The action execute_actions is about to hand to _execute_action.
AtAction ==
    /\ status = "running"
    /\ exc = NoExc
    /\ Len(stack) > 0
    /\ Top.k = "list"
    /\ Top.i <= Len(Top.actions)

Cur == Top.actions[Top.i]
Index == Top.i - 1

\* evaluate_condition on a value; a value that is no string makes
\* `"{{" not in condition` raise TypeError.
ConditionOf(c, condition) ==
    IF condition.t = "str" THEN evaluate_condition(c, condition.s)
    ELSE [ok |-> FALSE,
          exc |-> Exc("TypeError", "argument of type '" \o condition.t
                                   \o "' is not iterable")]

\* Variant of _execute_action_begin that goes on when the condition is false.
_execute_action_begin_noskip(action, c) ==
    Let2(Truthy(action.condition), ConditionOf(c, action.condition),
         LAMBDA cond, should_run :
             IF cond /\ ~should_run.ok
             THEN [outcome |-> "cond_error", cond |-> cond, exc |-> should_run.exc]
             ELSE Let(_render_args(action.args, c), LAMBDA rendered_args :
                      IF ~rendered_args.ok
                      THEN [outcome |-> "render_error", cond |-> cond,
                            exc |-> rendered_args.exc]
                      ELSE IF action.action.t # "str"
                              \/ action.action.s \notin ACTION_HANDLERS
                      THEN [outcome |-> "unknown", cond |-> cond]
                      ELSE [outcome |-> "handler", cond |-> cond,
                            kind |-> action.action.s, args |-> rendered_args.v]))

\* Variant of _execute_action_begin that renders the nested action data of
\* a flow-control action with its other arguments.
_execute_action_begin_prerendered(action, c) ==
    Let2(Truthy(action.condition), ConditionOf(c, action.condition),
         LAMBDA cond, should_run :
             IF cond /\ ~should_run.ok
             THEN [outcome |-> "cond_error", cond |-> cond, exc |-> should_run.exc]
             ELSE IF cond /\ ~should_run.b THEN [outcome |-> "skip", cond |-> cond]
             ELSE Let(_render_args_all(action.args, c), LAMBDA rendered_args :
                      IF ~rendered_args.ok
                      THEN [outcome |-> "render_error", cond |-> cond,
                            exc |-> rendered_args.exc]
                      ELSE IF action.action.t # "str"
                              \/ action.action.s \notin ACTION_HANDLERS
                      THEN [outcome |-> "unknown", cond |-> cond]
                      ELSE [outcome |-> "handler", cond |-> cond,
                            kind |-> action.action.s, args |-> rendered_args.v]))

\* _execute_action, lines 134-156, for `action` in the context c: how far
\* it gets before a handler runs.  `cond` tells whether the action has a
\* condition, which is then evaluated (should_run).
_execute_action_begin(action, c) ==
    Let2(Truthy(action.condition), ConditionOf(c, action.condition),
         LAMBDA cond, should_run :
             IF cond /\ ~should_run.ok
             THEN [outcome |-> "cond_error", cond |-> cond, exc |-> should_run.exc]
             ELSE IF cond /\ ~should_run.b THEN [outcome |-> "skip", cond |-> cond]
             ELSE Let(_render_args(action.args, c), LAMBDA rendered_args :
                      IF ~rendered_args.ok
                      THEN [outcome |-> "render_error", cond |-> cond,
                            exc |-> rendered_args.exc]
                      ELSE IF action.action.t # "str"
                              \/ action.action.s \notin ACTION_HANDLERS
                      THEN [outcome |-> "unknown", cond |-> cond]
                      ELSE [outcome |-> "handler", cond |-> cond,
                            kind |-> action.action.s, args |-> rendered_args.v]))

\* The frame of a handler: its kind and the action it runs for.
HF(kind) == [k |-> kind, index |-> Index, name |-> Cur.name]

\* _execute_action on the current action gets to `outcome` (for "handler":
\* to the handler of `kind`): the set holding what it has done so far, with
\* the events to log, or the empty set.
Begun(outcome, kind) ==
    IF ~AtAction THEN {}
    ELSE Let2(Cur, Ctx, LAMBDA action, c :
             Let(_execute_action_begin(action, c), LAMBDA b :
                 IF b.outcome = outcome /\ (outcome = "handler" => b.kind = kind)
                 THEN {b @@ [h |-> HF(kind), ctx |-> c,
                             pre |-> (IF b.cond THEN <<Ev("cond", "if", Index)>>
                                      ELSE <<>>)
                                     \o <<Ev(outcome,
                                             IF outcome = "handler" THEN kind
                                             ELSE Str(action.action), Index)>>]}
                 ELSE {}))

Invoke(kind) == Begun("handler", kind)

\* What a handler does next: run a nested list, return, raise, or (call)
\* run the actions of another macro in a child executor.
RPush(h, actions, c) == [r |-> "push", h |-> h, actions |-> actions, ctx |-> c]
RReturn(h, c) == [r |-> "return", h |-> h, ctx |-> c]
RRaise(h, e, c) == [r |-> "raise", h |-> h, exc |-> e, ctx |-> c]
RExecute(h, c, depth, macro, child_ctx) ==
    [r |-> "execute", h |-> h, ctx |-> c, depth |-> depth, macro |-> macro,
     child_ctx |-> child_ctx]

FlowKinds == {"if", "repeat", "while", "foreach", "try", "call"}

\* The event of _execute_action ending for the handler's action: what the
\* handler raised and what leaves _execute_action.
ExitEvent(res, depth) ==
    IF res.r = "raise"
    THEN <<[ev |-> "exit", k |-> res.h.k, index |-> res.h.index,
            depth |-> depth, outcome |-> "raise", h |-> res.h,
            raised |-> res.exc,
            left |-> _execute_action_except(res.exc, res.h.index, res.h.name)]>>
    ELSE IF res.h.k \in FlowKinds
    THEN <<[ev |-> "exit", k |-> res.h.k, index |-> res.h.index,
            depth |-> depth, outcome |-> "return", h |-> res.h]>>
    ELSE <<>>

\* The step of a handler whose frames lie above `base`; `pre` is logged first.
Apply(base, res_, pre_) ==
    /\ \E res \in {res_} : \E pre \in {pre_} :
        CASE res.r = "push" ->
                /\ stack' = base \o <<res.h, ListFrame(res.actions)>>
                /\ ctxs' = SetCtx(res.ctx)
                /\ exc' = NoExc
                /\ log' = log \o pre
          [] res.r = "execute" ->
                /\ stack' = base \o <<res.h, ExecuteFrame(res.depth),
                                      ListFrame(res.macro.actions)>>
                /\ ctxs' = Append(SetCtx(res.ctx), res.child_ctx)
                /\ exc' = NoExc
                /\ log' = log \o pre
                              \o <<[ev |-> "execute", k |-> Str(res.macro.name),
                                    index |-> 0, depth |-> res.depth]>>
          [] res.r = "return" ->
                /\ stack' = Advance(base)
                /\ ctxs' = SetCtx(res.ctx)
                /\ exc' = NoExc
                /\ log' = log \o pre \o ExitEvent(res, Executor._call_depth)
          [] res.r = "raise" ->
                /\ stack' = base
                /\ ctxs' = SetCtx(res.ctx)
                /\ exc' = _execute_action_except(res.exc, res.h.index, res.h.name)
                /\ log' = log \o pre \o ExitEvent(res, Executor._call_depth)
    /\ UNCHANGED <<status, run, heap>>

\* The nested list a handler of `kind` runs has ended, normally or by an
\* exception; H is the handler's frame.
H == stack[Len(stack) - 1]
ListEnded == /\ status = "running"
             /\ Len(stack) > 0
             /\ Top.k = "list"
             /\ (exc # NoExc \/ Top.i > Len(Top.actions))
BodyEnded(kind) == ListEnded /\ Len(stack) >= 3 /\ H.k = kind
Resume(res) == Apply(Pop(2), res, <<>>)

Init ==
    /\ status = "idle"
    /\ stack = <<>>
    /\ ctxs = <<>>
    /\ exc = NoExc
    /\ run = [path |-> "", params |-> EmptyDict]
    /\ log = <<>>
    /\ heap = <<>>

\* MacroExecutor.execute of the root executor, on a macro loaded from the
\* directory.
execute(path, params) ==
    /\ status = "idle"
    /\ UNCHANGED heap
    /\ \E loaded \in {load_macro(path)} :
        /\ loaded.ok
        /\ \E begin \in {execute_begin(0, loaded.v, params)} :
            /\ run' = [path |-> path, params |-> params]
            /\ IF begin.ok
               THEN /\ status' = "running"
                    /\ stack' = <<ExecuteFrame(0), ListFrame(loaded.v.actions)>>
                    /\ ctxs' = <<begin.ctx>>
                    /\ exc' = NoExc
                    /\ log' = <<[ev |-> "execute", k |-> Str(loaded.v.name),
                                 index |-> 0, depth |-> 0]>>
               ELSE /\ status' = "raised"
                    /\ stack' = <<>>
                    /\ ctxs' = <<>>
                    /\ exc' = begin.exc
                    /\ log' = <<[ev |-> "rejected", k |-> Str(loaded.v.name),
                                 index |-> 0, depth |-> 0]>>

\* execute_actions of the root execute has ended: execute returns or raises.
execute_end ==
    /\ ListEnded
    /\ Len(stack) = 2
    /\ status' = IF exc = NoExc THEN "done" ELSE "raised"
    /\ stack' = <<>>
    /\ UNCHANGED <<ctxs, exc, run, log, heap>>

\* _execute_action, lines 134-138: the condition is false, the action is skipped.
_execute_action_skip ==
    \E b \in Begun("skip", "") :
        /\ stack' = Advance(stack)
        /\ log' = log \o b.pre
        /\ UNCHANGED <<status, ctxs, exc, run, heap>>

\* _execute_action, line 135: evaluate_condition raises.
_execute_action_condition_raises ==
    \E b \in Begun("cond_error", "") :
        /\ exc' = b.exc
        /\ log' = log \o b.pre
        /\ UNCHANGED <<status, stack, ctxs, run, heap>>

\* _execute_action, line 141: _render_args raises.
_execute_action_render_raises ==
    \E b \in Begun("render_error", "") :
        /\ exc' = b.exc
        /\ log' = log \o b.pre
        /\ UNCHANGED <<status, stack, ctxs, run, heap>>

\* Variant of _execute_action_unknown whose error carries neither the index
\* nor the name of the action.
_execute_action_unknown_unlabelled ==
    \E b \in Begun("unknown", "") :
        /\ exc' = MacroExecutionError("Unknown action: " \o Str(Cur.action),
                                      None, None, "unknown", 0)
        /\ log' = log \o b.pre
        /\ UNCHANGED <<status, stack, ctxs, run, heap>>

\* _execute_action, lines 147-153: no handler is registered for the kind.
_execute_action_unknown ==
    \E b \in Begun("unknown", "") :
        /\ exc' = MacroExecutionError("Unknown action: " \o Str(Cur.action),
                                      I(Index), Cur.name, "unknown", 0)
        /\ log' = log \o b.pre
        /\ UNCHANGED <<status, stack, ctxs, run, heap>>

(***************************************************************************)
(* Handlers of the primitive actions.  d is what _execute_action hands to *)
(* the handler: d.args the rendered arguments, d.ctx the context, d.h the *)
(* handler's frame.                                                       *)
(***************************************************************************)
\* action_set_var
action_set_var ==
    \E d \in Invoke("set-var") :
        Apply(stack,
              IF DictGet(d.args, "name", None) = None
              THEN RRaise(d.h, Exc("ValueError", "set-var requires 'name' argument"),
                          d.ctx)
              ELSE RReturn(d.h, set(d.ctx, Str(d.args["name"]),
                                    DictGet(d.args, "value", None))),
              d.pre)

\* action_delay
action_delay ==
    \E d \in Invoke("delay") :
        \E seconds \in {float(DictGet(d.args, "seconds",
                                      DictGet(d.args, "duration", F(1))))} :
            Apply(stack,
                  IF seconds.ok THEN RReturn(d.h, d.ctx)
                  ELSE RRaise(d.h, seconds.exc, d.ctx),
                  d.pre)

\* action_log
action_log == \E d \in Invoke("log") : Apply(stack, RReturn(d.h, d.ctx), d.pre)

\* action_shell: util.shell is outside the model; it returns some output
\* or raises CommandError.
ShellResults == {[ok |-> TRUE, s |-> ""], [ok |-> TRUE, s |-> "out"], [ok |-> FALSE]}

action_shell ==
    \E d \in Invoke("shell") : \E result \in ShellResults :
        Apply(stack,
              IF ~result.ok
              THEN RRaise(d.h, Exc("CommandError", "Command failed"), d.ctx)
              ELSE IF Truthy(DictGet(d.args, "store_as", None))
              THEN RReturn(d.h, set(d.ctx, Str(d.args["store_as"]), S(result.s)))
              ELSE RReturn(d.h, d.ctx),
              d.pre)

\* action_break
action_break ==
    \E d \in Invoke("break") :
        Apply(stack, RRaise(d.h, Exc("LoopBreak", ""), d.ctx), d.pre)

\* action_continue
action_continue ==
    \E d \in Invoke("continue") :
        Apply(stack, RRaise(d.h, Exc("LoopContinue", ""), d.ctx), d.pre)

\* action_fail
action_fail ==
    \E d \in Invoke("fail") :
        Apply(stack,
              RRaise(d.h,
                     MacroExecutionError(
                         Str(DictGet(d.args, "message", S("Macro execution failed"))),
                         None, None, "fail", 0),
                     d.ctx),
              d.pre)

\* Variant of action_return that keeps a return value already set.
action_return_first_kept ==
    \E d \in Invoke("return") :
        Apply(stack,
              RReturn(d.h, IF "_return_value" \in DOMAIN d.ctx._runtime_vars THEN d.ctx
                           ELSE set(d.ctx, "_return_value",
                                    DictGet(d.args, "value", None))),
              d.pre)

\* Variant of action_return that leaves the list: the actions after the
\* return action are passed over.
action_return_leaving ==
    \E d \in Invoke("return") :
        Apply([stack EXCEPT ![Len(stack)].i = Len(Top.actions)],
              RReturn(d.h, set(d.ctx, "_return_value", DictGet(d.args, "value", None))),
              d.pre)

\* action_return
action_return ==
    \E d \in Invoke("return") :
        Apply(stack,
              RReturn(d.h, set(d.ctx, "_return_value", DictGet(d.args, "value", None))),
              d.pre)

(***************************************************************************)
(* Handlers of the flow-control actions.                                  *)
(***************************************************************************)
\* action_if, from its first line to the call of execute_actions
if_begin(h, c, args) ==
    Let(ConditionOf(c, DictGet(args, "condition", S(""))), LAMBDA is_true :
        IF ~is_true.ok THEN RRaise(h, is_true.exc, c)
        ELSE Let(IF is_true.b THEN "then" ELSE "else", LAMBDA branch :
                 Let(DictGet(args, branch, L(<<>>)), LAMBDA data :
                     IF ~Truthy(data) THEN RReturn(h @@ [branch |-> "none"], c)
                     ELSE Let(_parse_actions(data), LAMBDA parsed :
                              IF ~parsed.ok THEN RRaise(h, parsed.exc, c)
                              ELSE RPush(h @@ [branch |-> branch], parsed.v, c)))))

action_if == \E d \in Invoke("if") : Apply(stack, if_begin(d.h, d.ctx, d.args), d.pre)

\* action_if: execute_actions of the branch has ended
action_if_end ==
    /\ BodyEnded("if")
    /\ Resume(IF exc = NoExc THEN RReturn(H, Ctx) ELSE RRaise(H, exc, Ctx))

\* Variant of repeat_pass that counts the passes from 1.
repeat_pass_from_one(h, c) ==
    IF h.i < h.count THEN RPush(h, h.parsed, set(c, Str(h.loop_var), I(h.i + 1)))
    ELSE RReturn(h, c)

\* action_repeat, line 587: the for statement takes pass h.i, if there is one
repeat_pass(h, c) ==
    IF h.i < h.count THEN RPush(h, h.parsed, set(c, Str(h.loop_var), I(h.i)))
    ELSE RReturn(h, c)

\* action_repeat, lines 578-587
repeat_begin(h, c, args) ==
    Let2(int(DictGet(args, "count", I(1))), DictGet(args, "actions", L(<<>>)),
         LAMBDA count, actions_data :
             IF ~count.ok THEN RRaise(h, count.exc, c)
             ELSE IF ~Truthy(actions_data) THEN RReturn(h, c)
             ELSE Let(_parse_actions(actions_data), LAMBDA parsed :
                      IF ~parsed.ok THEN RRaise(h, parsed.exc, c)
                      ELSE repeat_pass(h @@ [count |-> count.v.n,
                                             loop_var |-> DictGet(args, "as", S("i")),
                                             parsed |-> parsed.v, i |-> 0], c)))

action_repeat ==
    \E d \in Invoke("repeat") : Apply(stack, repeat_begin(d.h, d.ctx, d.args), d.pre)

\* action_repeat, lines 589-594: a pass has ended
action_repeat_next ==
    /\ BodyEnded("repeat")
    /\ Resume(IF exc.type = "LoopBreak" THEN RReturn(H, Ctx)
              ELSE IF exc = NoExc \/ exc.type = "LoopContinue"
                   THEN repeat_pass([H EXCEPT !.i = @ + 1], Ctx)
              ELSE RRaise(H, exc, Ctx))

\* Variant of while_check whose ceiling test is `iteration > max_iterations`.
while_check_late(h, c) ==
    Let(ConditionOf(c, h.condition), LAMBDA cond :
        IF ~cond.ok THEN RRaise(h, cond.exc, c)
        ELSE IF ~cond.b THEN RReturn([h EXCEPT !.ended = "condition"], c)
        ELSE IF h.iteration > h.max_iterations
             THEN RRaise(h,
                         MacroExecutionError(
                             "while loop exceeded max_iterations ("
                                 \o IntStr(h.max_iterations) \o ")",
                             None, None, "ceiling", 0),
                         c)
        ELSE RPush([h EXCEPT !.iteration = @ + 1], h.parsed, c))

\* action_while, lines 612-620: the condition, the ceiling, the next pass
while_check(h, c) ==
    Let(ConditionOf(c, h.condition), LAMBDA cond :
        IF ~cond.ok THEN RRaise(h, cond.exc, c)
        ELSE IF ~cond.b THEN RReturn([h EXCEPT !.ended = "condition"], c)
        ELSE IF h.iteration >= h.max_iterations
             THEN RRaise(h,
                         MacroExecutionError(
                             "while loop exceeded max_iterations ("
                                 \o IntStr(h.max_iterations) \o ")",
                             None, None, "ceiling", 0),
                         c)
        ELSE RPush([h EXCEPT !.iteration = @ + 1], h.parsed, c))

\* action_while, lines 602-612; `ended` records how the loop was left.
while_begin(h, c, args) ==
    Let2(int(DictGet(args, "max_iterations", I(DefaultMaxIterations))),
         DictGet(args, "actions", L(<<>>)),
         LAMBDA max_iterations, actions_data :
             IF ~max_iterations.ok THEN RRaise(h, max_iterations.exc, c)
             ELSE Let(h @@ [condition |-> DictGet(args, "condition", S("")),
                            max_iterations |-> max_iterations.v.n],
                      LAMBDA h1 :
                          IF ~Truthy(actions_data) THEN RReturn(h1, c)
                          ELSE Let(_parse_actions(actions_data), LAMBDA parsed :
                                   IF ~parsed.ok THEN RRaise(h1, parsed.exc, c)
                                   ELSE while_check(h1 @@ [parsed |-> parsed.v,
                                                           iteration |-> 0,
                                                           ended |-> ""], c))))

action_while ==
    \E d \in Invoke("while") : Apply(stack, while_begin(d.h, d.ctx, d.args), d.pre)

\* Variant of action_while_next that goes on with the next check whatever
\* the pass raised.
action_while_next_resilient ==
    /\ BodyEnded("while")
    /\ Resume(IF exc.type = "LoopBreak" THEN RReturn([H EXCEPT !.ended = "break"], Ctx)
              ELSE while_check(H, Ctx))

\* action_while, lines 619-624: a pass has ended
action_while_next ==
    /\ BodyEnded("while")
    /\ Resume(IF exc.type = "LoopBreak" THEN RReturn([H EXCEPT !.ended = "break"], Ctx)
              ELSE IF exc = NoExc \/ exc.type = "LoopContinue" THEN while_check(H, Ctx)
              ELSE RRaise(H, exc, Ctx))


\* Variant of foreach_pass that counts the positions from 1.
foreach_pass_from_one(h, c) ==
    IF h.i < Len(h.items)
    THEN Let(set(c, Str(h.loop_var), h.items[h.i + 1]), LAMBDA c1 :
             RPush(h, h.parsed,
                   IF Truthy(h.index_var) THEN set(c1, Str(h.index_var), I(h.i + 1))
                   ELSE c1))
    ELSE RReturn(h, c)

\* action_foreach, lines 646-652: the for statement takes item h.i, if any
foreach_pass(h, c) ==
    IF h.i < Len(h.items)
    THEN Let(set(c, Str(h.loop_var), h.items[h.i + 1]), LAMBDA c1 :
             RPush(h, h.parsed,
                   IF Truthy(h.index_var) THEN set(c1, Str(h.index_var), I(h.i))
                   ELSE c1))
    ELSE RReturn(h, c)

\* action_foreach, lines 632-646
foreach_begin(h, c, args) ==
    Let2(DictGet(args, "items", L(<<>>)), DictGet(args, "actions", L(<<>>)),
         LAMBDA items, actions_data :
             IF ~Truthy(actions_data) \/ ~Truthy(items) THEN RReturn(h, c)
             ELSE Let(_parse_actions(actions_data), LAMBDA parsed :
                      IF ~parsed.ok THEN RRaise(h, parsed.exc, c)
                      ELSE IF items.t \notin {"str", "list", "dict"}
                           THEN RRaise(h, Exc("TypeError", "object is not iterable"), c)
                      ELSE foreach_pass(
                               h @@ [items |->
                                         CASE items.t = "str" -> SplitComma(items.s)
                                           [] items.t = "list" -> items.l
                                           [] items.t = "dict" -> DictKeys(DOMAIN items.d),
                                     loop_var |-> DictGet(args, "as", S("item")),
                                     index_var |-> DictGet(args, "index_as", None),
                                     parsed |-> parsed.v, i |-> 0], c)))

action_foreach ==
    \E d \in Invoke("foreach") : Apply(stack, foreach_begin(d.h, d.ctx, d.args), d.pre)

\* Variant of action_foreach_next that unbinds the item variable when the
\* loop ends.
action_foreach_next_scoped ==
    /\ BodyEnded("foreach")
    /\ \E c \in {[Ctx EXCEPT !._runtime_vars = DictDrop(@, {Str(H.loop_var)})]} :
          Resume(IF exc.type = "LoopBreak" THEN RReturn(H, c)
                 ELSE IF exc = NoExc \/ exc.type = "LoopContinue"
                      THEN IF H.i + 1 < Len(H.items)
                           THEN foreach_pass([H EXCEPT !.i = @ + 1], Ctx)
                           ELSE RReturn([H EXCEPT !.i = @ + 1], c)
                 ELSE RRaise(H, exc, c))

\* action_foreach, lines 651-656: a pass has ended
action_foreach_next ==
    /\ BodyEnded("foreach")
    /\ Resume(IF exc.type = "LoopBreak" THEN RReturn(H, Ctx)
              ELSE IF exc = NoExc \/ exc.type = "LoopContinue"
                   THEN foreach_pass([H EXCEPT !.i = @ + 1], Ctx)
              ELSE RRaise(H, exc, Ctx))

\* action_try, lines 691-695: after the finally block
try_end(h, c) ==
    IF h.error_occurred /\ ~Truthy(h.catch_data)
    THEN RRaise([h EXCEPT !.phase = "end"],
                MacroExecutionError(Str(get(c, Str(h.error_var), S("Unknown error"))),
                                    None, None, "try", 0),
                c)
    ELSE RReturn([h EXCEPT !.phase = "end"], c)

\* action_try, lines 686-689: the finally block; fin_runs counts the times
\* execute_actions is called on the finally list.
try_finally(h, c) ==
    IF ~Truthy(h.finally_data) THEN try_end(h, c)
    ELSE Let(_parse_actions(h.finally_data), LAMBDA parsed :
             IF ~parsed.ok THEN RRaise(h, parsed.exc, c)
             ELSE RPush([h EXCEPT !.phase = "finally", !.fin_runs = @ + 1],
                        parsed.v, c))

\* Variant of try_except that leaves the error variable unset.
try_except_unbound(h, c, e) ==
    Let([h EXCEPT !.error_occurred = TRUE, !.body_error = e.msg], LAMBDA h1 :
        IF ~Truthy(h.catch_data) THEN try_finally(h1, c)
        ELSE Let(_parse_actions(h.catch_data), LAMBDA parsed :
                 IF ~parsed.ok THEN RRaise(h1, parsed.exc, c)
                 ELSE RPush([h1 EXCEPT !.phase = "catch"], parsed.v, c)))

\* action_try, lines 679-684: the except clause for an exception e that is
\* no loop signal
try_except(h, c, e) ==
    Let2([h EXCEPT !.error_occurred = TRUE, !.body_error = e.msg],
         set(c, Str(h.error_var), S(e.msg)),
         LAMBDA h1, c1 :
             IF ~Truthy(h.catch_data) THEN try_finally(h1, c1)
             ELSE Let(_parse_actions(h.catch_data), LAMBDA parsed :
                      IF ~parsed.ok THEN RRaise(h1, parsed.exc, c1)
                      ELSE RPush([h1 EXCEPT !.phase = "catch"], parsed.v, c1)))

\* action_try, lines 664-675
try_begin(h0, c, args) ==
    Let2(h0 @@ [catch_data |-> DictGet(args, "catch", L(<<>>)),
                finally_data |-> DictGet(args, "finally", L(<<>>)),
                error_var |-> DictGet(args, "error_as", S("error")),
                error_occurred |-> FALSE, phase |-> "body", fin_runs |-> 0,
                body_error |-> "", body_signal |-> FALSE],
         DictGet(args, "actions", L(<<>>)),
         LAMBDA h, actions_data :
             IF ~Truthy(actions_data) THEN try_finally(h, c)
             ELSE Let(_parse_actions(actions_data), LAMBDA parsed :
                      IF ~parsed.ok THEN try_except(h, c, parsed.exc)
                      ELSE RPush(h, parsed.v, c)))

action_try == \E d \in Invoke("try") : Apply(stack, try_begin(d.h, d.ctx, d.args), d.pre)

\* Variant of action_try_body_end whose except clause takes the loop signals
\* as it takes every other exception.
action_try_body_end_catching ==
    /\ BodyEnded("try") /\ H.phase = "body"
    /\ Resume(IF exc = NoExc THEN try_finally(H, Ctx) ELSE try_except(H, Ctx, exc))

\* action_try, lines 675-684: execute_actions of the body has ended
action_try_body_end ==
    /\ BodyEnded("try") /\ H.phase = "body"
    /\ Resume(IF exc = NoExc THEN try_finally(H, Ctx)
              ELSE IF IsLoopSignal(exc)
                   THEN RRaise([H EXCEPT !.body_signal = TRUE], exc, Ctx)
              ELSE try_except(H, Ctx, exc))

\* action_try, line 684: execute_actions of the catch list has ended
action_try_catch_end ==
    /\ BodyEnded("try") /\ H.phase = "catch"
    /\ Resume(IF exc = NoExc THEN try_finally(H, Ctx) ELSE RRaise(H, exc, Ctx))

\* action_try, line 689: execute_actions of the finally list has ended
action_try_finally_end ==
    /\ BodyEnded("try") /\ H.phase = "finally"
    /\ Resume(IF exc = NoExc THEN try_end(H, Ctx) ELSE RRaise(H, exc, Ctx))

\* action_call, lines 743-761: up to the first action of the called macro
call_begin(h, c, args, executor) ==
    Let(DictGet(args, "macro", S("")), LAMBDA macro_name :
        IF ~Truthy(macro_name)
        THEN RRaise(h, MacroExecutionError("call action requires 'macro' argument",
                                           None, None, "call", 0), c)
        ELSE Let(find_macro(Str(macro_name)), LAMBDA found :
                 IF ~found.ok THEN RRaise(h, found.exc, c)
                 ELSE IF found.v = None
                 THEN RRaise(h, MacroExecutionError(
                                    "Macro not found: " \o Str(macro_name),
                                    None, None, "call", 0), c)
                 ELSE Let2(DictGet(args, "params", D(EmptyDict)),
                           create_child_executor(executor),
                           LAMBDA call_params, child_executor :
                               Let(execute_begin(child_executor._call_depth, found.v,
                                                 IF Truthy(call_params)
                                                 THEN call_params.d ELSE EmptyDict),
                                   LAMBDA begin :
                                       IF ~begin.ok THEN RRaise(h, begin.exc, c)
                                       ELSE RExecute(h, c, child_executor._call_depth,
                                                     found.v, begin.ctx)))))

action_call ==
    \E d \in Invoke("call") :
        Apply(stack, call_begin(d.h, d.ctx, d.args, Executor), d.pre)

\* Variant of action_call_end in which the runtime variables of the called
\* macro are carried over into the context of the caller.
action_call_end_merging ==
    /\ ListEnded
    /\ Len(stack) >= 4
    /\ H.k = "execute"
    /\ \E res \in {IF exc = NoExc THEN RReturn(stack[Len(stack) - 2], Ctx)
                   ELSE RRaise(stack[Len(stack) - 2], exc, Ctx)} :
          /\ ctxs' = [SubSeq(ctxs, 1, Len(ctxs) - 1)
                         EXCEPT ![Len(ctxs) - 1]._runtime_vars =
                                    DictUpdate(@, Ctx._runtime_vars)]
          /\ stack' = IF exc = NoExc THEN Advance(Pop(3)) ELSE Pop(3)
          /\ exc' = IF exc = NoExc THEN NoExc
                    ELSE _execute_action_except(exc, res.h.index, res.h.name)
          /\ log' = log \o ExitEvent(res, H._call_depth - 1)
          /\ UNCHANGED <<status, run, heap>>

\* action_call, lines 761-763: execute of the child executor has ended
action_call_end ==
    /\ ListEnded
    /\ Len(stack) >= 4
    /\ H.k = "execute"
    /\ \E res \in {IF exc = NoExc THEN RReturn(stack[Len(stack) - 2], Ctx)
                   ELSE RRaise(stack[Len(stack) - 2], exc, Ctx)} :
          /\ ctxs' = SubSeq(ctxs, 1, Len(ctxs) - 1)
          /\ stack' = IF exc = NoExc THEN Advance(Pop(3)) ELSE Pop(3)
          /\ exc' = IF exc = NoExc THEN NoExc
                    ELSE _execute_action_except(exc, res.h.index, res.h.name)
          /\ log' = log \o ExitEvent(res, H._call_depth - 1)
          /\ UNCHANGED <<status, run, heap>>

Next ==
    \/ \E path \in PathsOf(Directory) : \E params \in ParamChoices(path) : execute(path, params)
    \/ execute_end
    \/ _execute_action_skip
    \/ _execute_action_condition_raises
    \/ _execute_action_render_raises
    \/ _execute_action_unknown
    \/ action_set_var
    \/ action_delay
    \/ action_log
    \/ action_shell
    \/ action_break
    \/ action_continue
    \/ action_fail
    \/ action_return
    \/ action_if
    \/ action_if_end
    \/ action_repeat
    \/ action_repeat_next
    \/ action_while
    \/ action_while_next
    \/ action_foreach
    \/ action_foreach_next
    \/ action_try
    \/ action_try_body_end
    \/ action_try_catch_end
    \/ action_try_finally_end
    \/ action_call
    \/ action_call_end

Spec == Init /\ [][Next]_vars

\* The interpreter is a sequential program that runs until execute returns
\* or raises: a step that can be taken is taken.
FairSpec == Spec /\ WF_vars(Next)

(***************************************************************************)
(* The library called directly, outside a run: a MacroContext that is     *)
(* created, set and copied, and a MacroParameter that validates a value.  *)
(* A MacroContext object holds references to its three dicts, which are   *)
(* objects of `heap`; `run` holds the arguments the object was created    *)
(* with, `log` the last call and what it returned or raised.              *)
(***************************************************************************)
\* The layers of the context object `ref`, read from the heap h.
Deref(h, ref) ==
    [_params |-> h[ref._params], _vars |-> h[ref._vars],
     _runtime_vars |-> h[ref._runtime_vars]]

\* MacroContext.copy: a new context from copies of the three dicts.
copy(self) ==
    [MacroContext(self._params, self._vars)
        EXCEPT !._runtime_vars = self._runtime_vars]

LibraryInit ==
    /\ status = "library"
    /\ stack = <<>>
    /\ exc = NoExc
    /\ log = <<>>
    /\ \/ \E params \in {EmptyDict, [var |-> S("from_param"), user |-> S("john")]} :
          \E vars_ \in {EmptyDict, [var |-> S("from_default"), base |-> S("value")]} :
             \E c \in {MacroContext(params, vars_)} :
                /\ run = [unit |-> "MacroContext", params |-> params, vars |-> vars_]
                /\ heap = <<c._params, c._vars, c._runtime_vars>>
                /\ ctxs = <<[_params |-> 1, _vars |-> 2, _runtime_vars |-> 3]>>
       \/ \E type \in {S("string"), S("integer"), S("float"), S("boolean"),
                       S("list"), S("date")} :
          \E required \in {B(TRUE), B(FALSE)} :
          \E default \in {None, S("7")} :
          \E value \in {None, S("4"), S("abc"), S("yes"), S("a, b"), S(""),
                        I(4), I(0), F(3), Inf, B(TRUE), L(<<S("a")>>),
                        D(EmptyDict)} :
                /\ run = [unit |-> "MacroParameter",
                          self |-> MacroParameter(S("count"), type, required, default),
                          value |-> value]
                /\ heap = <<>>
                /\ ctxs = <<>>
       \/ \* two executors have each entered execute on one loaded macro: the
          \* two contexts hold the vars dict of the macro and dicts of their own
          LET macro == Macro_from_dict(
                           Doc("pair", <<D([name |-> S("user"), required |-> B(FALSE)])>>,
                               [var |-> S("from_default"), base |-> S("value")],
                               <<>>).d, None).v
          IN \E p1 \in {EmptyDict, [user |-> S("john")]} :
             \E p2 \in {EmptyDict, [user |-> S("john")]} :
             \E b1 \in {execute_begin(0, macro, p1)} :
             \E b2 \in {execute_begin(0, macro, p2)} :
                /\ run = [unit |-> "executions", macro |-> macro, started |-> <<p1, p2>>]
                /\ heap = <<b1.ctx._params, macro.vars, b1.ctx._runtime_vars,
                            b2.ctx._params, b2.ctx._runtime_vars>>
                /\ ctxs = <<[_params |-> 1, _vars |-> 2, _runtime_vars |-> 3],
                            [_params |-> 4, _vars |-> 2, _runtime_vars |-> 5]>>
       \/ \* a directory of at most MaxFiles files, in listing order
          LET pool == <<File("a.yaml", Doc("a", <<>>, EmptyDict, <<Log("first")>>)),
                        File("bad.yaml", InvalidYaml),
                        File("list.yaml", L(<<S("a")>>)),
                        File("noname.yaml", D([actions |-> L(<<>>)])),
                        File("nokind.yaml",
                             D([name |-> S("nokind"),
                                actions |-> L(<<D([message |-> S("x")])>>)])),
                        File("text.yaml", D([name |-> S("text"), actions |-> S("log")])),
                        File("null.yaml", D([name |-> S("null"), actions |-> None])),
                        File("notes.txt", Doc("notes", <<>>, EmptyDict, <<>>)),
                        File("z.yaml", Doc("z", <<S("user")>>, EmptyDict, <<>>)),
                        File("a.yml", Doc("a", <<>>, EmptyDict, <<Log("second")>>))>>
          IN \E picks \in {ps \in SUBSET DOMAIN pool : Cardinality(ps) <= MaxFiles} :
                /\ run = [unit |-> "directory",
                          directory |->
                              [k \in 1..Cardinality(picks) |->
                                  pool[CHOOSE i \in picks :
                                         Cardinality({j \in picks : j <= i}) = k]]]
                /\ heap = <<>>
                /\ ctxs = <<>>
       \/ \* a list of nested action data as an action holds it: the dict
          \* entries are objects of the heap
          \E raw \in {<<>>,
                      <<With(Log("{{ i }}"), [if |-> S("i > 0"), name |-> S("say")]),
                        S("stray"),
                        Repeat(I(2), <<Log("inner")>>)>>,
                      <<Log("first"), D([message |-> S("x")]), Log("last")>>} :
                /\ run = [unit |-> "_parse_actions",
                          raw |-> raw,
                          action_data |->
                              [i \in DOMAIN raw |->
                                  IF raw[i].t = "dict"
                                  THEN [ref |-> Cardinality({j \in 1..i : raw[j].t = "dict"})]
                                  ELSE raw[i]]]
                /\ heap = Let({i \in DOMAIN raw : raw[i].t = "dict"}, LAMBDA dicts :
                              [k \in 1..Cardinality(dicts) |->
                                  raw[CHOOSE i \in dicts :
                                        Cardinality({j \in dicts : j <= i}) = k].d])
                /\ ctxs = <<>>

\* ctxs[j].set(name, value)
MacroContext_set(j, name, value) ==
    /\ status = "library"
    /\ j \in DOMAIN ctxs
    /\ \E c \in {set(Deref(heap, ctxs[j]), name, value)} :
          heap' = [heap EXCEPT ![ctxs[j]._params] = c._params,
                               ![ctxs[j]._vars] = c._vars,
                               ![ctxs[j]._runtime_vars] = c._runtime_vars]
    /\ log' = <<[op |-> "set", ctx |-> j, name |-> name, value |-> value]>>
    /\ UNCHANGED <<status, stack, ctxs, exc, run>>

\* Variant of MacroContext_copy whose new context shares the runtime dict of
\* the context it copies (_runtime_vars assigned without .copy()).
MacroContext_copy_shared(j) ==
    /\ status = "library"
    /\ j \in DOMAIN ctxs
    /\ Len(ctxs) < MaxContexts
    /\ \E c \in {copy(Deref(heap, ctxs[j]))} :
          /\ heap' = heap \o <<c._params, c._vars>>
          /\ ctxs' = Append(ctxs, [_params |-> Len(heap) + 1, _vars |-> Len(heap) + 2,
                                   _runtime_vars |-> ctxs[j]._runtime_vars])
    /\ log' = <<[op |-> "copy", ctx |-> j, new |-> Len(ctxs) + 1]>>
    /\ UNCHANGED <<status, stack, exc, run>>

\* ctxs[j].copy(): the new context and its dicts are new objects.
MacroContext_copy(j) ==
    /\ status = "library"
    /\ j \in DOMAIN ctxs
    /\ Len(ctxs) < MaxContexts
    /\ \E c \in {copy(Deref(heap, ctxs[j]))} :
          /\ heap' = heap \o <<c._params, c._vars, c._runtime_vars>>
          /\ ctxs' = Append(ctxs, [_params |-> Len(heap) + 1, _vars |-> Len(heap) + 2,
                                   _runtime_vars |-> Len(heap) + 3])
    /\ log' = <<[op |-> "copy", ctx |-> j, new |-> Len(ctxs) + 1]>>
    /\ UNCHANGED <<status, stack, exc, run>>

\* run.self.validate(run.value)
MacroParameter_validate ==
    /\ status = "library"
    /\ run.unit = "MacroParameter"
    /\ log = <<>>
    /\ log' = <<[op |-> "validate", result |-> validate(run.self, run.value)]>>
    /\ UNCHANGED <<status, stack, ctxs, exc, run, heap>>

\* load_macros(run.directory)
load_macros_call ==
    /\ status = "library"
    /\ run.unit = "directory"
    /\ log = <<>>
    /\ log' = <<[op |-> "load_macros", result |-> load_macros_of(run.directory)]>>
    /\ UNCHANGED <<status, stack, ctxs, exc, run, heap>>

\* load_macro(path) on one file of run.directory
load_macro_call(path) ==
    /\ status = "library"
    /\ run.unit = "directory"
    /\ log = <<>>
    /\ log' = <<[op |-> "load_macro", path |-> path,
                 result |-> load_macro_of(run.directory, path)]>>
    /\ UNCHANGED <<status, stack, ctxs, exc, run, heap>>

\* The argument of _parse_actions: the list run.action_data as the heap
\* holds it now (data), and the positions of it that the loop gets to
\* (reached): all dict entries, or those up to the first without 'action'.
ActionData ==
    Let2([i \in DOMAIN run.action_data |->
             IF "ref" \in DOMAIN run.action_data[i]
             THEN D(heap[run.action_data[i].ref]) ELSE run.action_data[i]],
         {i \in DOMAIN run.action_data :
             /\ "ref" \in DOMAIN run.action_data[i]
             /\ "action" \notin DOMAIN heap[run.action_data[i].ref]},
         LAMBDA data, bad :
             [data |-> data,
              reached |-> {i \in DOMAIN data :
                              data[i].t = "dict" /\ \A b \in bad : i <= b}])

\* Variant of _parse_actions_call that hands the entries themselves to
\* MacroAction.from_dict (data instead of data.copy()).
_parse_actions_call_in_place ==
    /\ status = "library"
    /\ run.unit = "_parse_actions"
    /\ Len(log) < MaxPasses
    /\ \E data \in {ActionData.data} : \E reached \in {ActionData.reached} :
          /\ log' = Append(log, [op |-> "_parse_actions",
                                 result |-> _parse_actions(L(data))])
          /\ heap' = [k \in DOMAIN heap |->
                          IF /\ \E i \in reached : run.action_data[i].ref = k
                             /\ "action" \in DOMAIN heap[k]
                          THEN DictDrop(heap[k], {"action", "if", "name"})
                          ELSE heap[k]]
    /\ UNCHANGED <<status, stack, ctxs, exc, run>>

\* _parse_actions(run.action_data): every dict entry reached is copied, and
\* MacroAction.from_dict pops its keys from the copy, which becomes the
\* args of the parsed action.
_parse_actions_call ==
    /\ status = "library"
    /\ run.unit = "_parse_actions"
    /\ Len(log) < MaxPasses
    /\ \E data \in {ActionData.data} : \E reached \in {ActionData.reached} :
          /\ log' = Append(log, [op |-> "_parse_actions",
                                 result |-> _parse_actions(L(data))])
          /\ heap' = heap \o
                         [k \in 1..Cardinality(reached) |->
                             Let(data[CHOOSE i \in reached :
                                        Cardinality({j \in reached : j <= i}) = k].d,
                                 LAMBDA copied :
                                     IF "action" \in DOMAIN copied
                                     THEN DictDrop(copied, {"action", "if", "name"})
                                     ELSE copied)]
    /\ UNCHANGED <<status, stack, ctxs, exc, run>>

LibraryNext ==
    \/ \E j \in DOMAIN ctxs : \E name \in {"var", "new_var"} :
          \E value \in {S("from_runtime"), None} : MacroContext_set(j, name, value)
    \/ \E j \in DOMAIN ctxs : MacroContext_copy(j)
    \/ MacroParameter_validate
    \/ load_macros_call
    \/ \E path \in (IF run.unit = "directory" THEN PathsOf(run.directory) ELSE {}) :
          load_macro_call(path)
    \/ _parse_actions_call

LibrarySpec == LibraryInit /\ [][LibraryNext]_vars

(***************************************************************************)
(* Properties.  The exits of _execute_action are read from `log`.         *)
(***************************************************************************)
IsExit(e, kind) == e.ev = "exit" /\ e.k = kind
IsRaise(e) == e.ev = "exit" /\ e.outcome = "raise"
Ended == status \in {"done", "raised"}

\* C1: every try action with a finally list that has ended has run its
\* finally list exactly once, whatever the exit path (body succeeded, body
\* failed with or without catch, catch raised, break/continue raised).
C1_FinallyExactlyOnce ==
    \A i \in DOMAIN log :
        (IsExit(log[i], "try") /\ Truthy(log[i].h.finally_data))
            => log[i].h.fin_runs = 1

\* C2 (first part): when the catch list of a try is about to run its first
\* action, the error variable holds the message of the body's error.
C2_ErrorBound ==
    (/\ status = "running" /\ exc = NoExc /\ Len(stack) >= 3
     /\ Top.k = "list" /\ Top.i = 1
     /\ H.k = "try" /\ H.phase = "catch")
        => get(Ctx, Str(H.error_var), None) = S(H.body_error)

C3_ErrorCarriesIndex ==
    (status = "raised" /\ exc.type = "MacroExecutionError") => exc.action_index # None

\* C4: a rendering error in the arguments of an action leaves execute as an
\* execution error that carries the position of that action.
C4_RenderErrorIsExecutionError ==
    \A i \in DOMAIN log :
        (status = "raised" /\ log[i].ev = "render_error")
            => /\ exc.type = "MacroExecutionError"
               /\ exc.action_index = I(log[i].index)

\* C5: at every exit of _execute_action by an exception the handler raised:
\* a loop signal and an execution error leave unchanged; any other exception
\* leaves as an execution error with the index and name of the action and
\* the exception's message; no error is wrapped twice; and what an enclosing
\* if, loop, call or try lets through is what left the level below.
C5_WrappedOnce ==
    \A i \in DOMAIN log :
        IsRaise(log[i])
            => /\ IF IsLoopSignal(log[i].raised)
                     \/ log[i].raised.type = "MacroExecutionError"
                  THEN log[i].left = log[i].raised
                  ELSE /\ log[i].left.type = "MacroExecutionError"
                       /\ log[i].left.action_index = I(log[i].index)
                       /\ log[i].left.action_name = log[i].h.name
                       /\ log[i].left.msg
                            = MacroExecutionError(log[i].raised.msg, I(log[i].index),
                                                  log[i].h.name, "", 0).msg
               /\ log[i].left.wrapped <= 1
               /\ (/\ i > 1 /\ IsRaise(log[i - 1])
                   /\ \/ log[i].k \in {"if", "call"}
                      \/ /\ log[i].k \in {"repeat", "while", "foreach"}
                         /\ ~IsLoopSignal(log[i - 1].left)
                      \/ /\ log[i].k = "try"
                         /\ \/ log[i].h.phase \in {"catch", "finally"}
                            \/ log[i].h.body_signal)
                      => /\ log[i].raised = log[i - 1].left
                         /\ log[i].left = log[i - 1].left

\* A handler's ValueError has been wrapped with the index and name of its
\* action, and the enclosing repeat (another index, another name) has
\* passed the execution error on.
C5_Witness ==
    \E i \in DOMAIN log :
        /\ i > 1
        /\ IsRaise(log[i - 1]) /\ log[i - 1].raised.type = "ValueError"
        /\ log[i - 1].left.action_index = I(0)
        /\ log[i - 1].left.action_name = S("inner")
        /\ IsRaise(log[i]) /\ log[i].k = "repeat" /\ log[i].index = 1
        /\ log[i].h.name = S("outer")
        /\ log[i].left = log[i - 1].left
        /\ status = "raised" /\ exc = log[i].left

\* The parameters do not pass validation: a required parameter without
\* default is missing, or a value is not of the declared type nor a string
\* that converts to it.
C6_Coercible(type, value) ==
    CASE type = S("integer") ->
            value.t \in {"int", "float", "bool"}
                \/ (value.t = "str" /\ \E n \in 0..MaxParse : IntStr(n) = value.s)
      [] type = S("float") ->
            value.t \in {"int", "float", "bool"}
                \/ (value.t = "str" /\ \E n \in 0..MaxParse : IntStr(n) = value.s)
      [] type = S("boolean") ->
            value.t = "bool"
                \/ (value.t = "str"
                    /\ Lower(value.s) \in {"true", "yes", "1", "on",
                                           "false", "no", "0", "off"})
      [] type = S("list") -> value.t \in {"list", "str"}
      [] OTHER -> TRUE

C6_Invalid(macro, params) ==
    \E i \in DOMAIN macro.parameters :
        IF DictGet(params, Str(macro.parameters[i].name), None) = None
        THEN Truthy(macro.parameters[i].required) /\ macro.parameters[i].default = None
        ELSE ~C6_Coercible(macro.parameters[i].type,
                           params[Str(macro.parameters[i].name)])

\* C6: when the parameters of a run do not pass validation, execute has
\* raised a ValueError and no condition was evaluated and no handler called;
\* when they pass, the actions run.
C6_ValidationFirst ==
    status # "idle"
        => IF C6_Invalid(load_macro(run.path).v, run.params)
           THEN /\ status = "raised"
                /\ exc.type = "ValueError"
                /\ stack = <<>>
                /\ \A i \in DOMAIN log : log[i].ev = "rejected"
           ELSE /\ log[1].ev = "execute"
                /\ (Ended /\ load_macro(run.path).v.actions # <<>>) => Len(log) >= 2

\* A run with a value that does not convert to the declared type was
\* rejected.
C6_Witness ==
    /\ run = [path |-> "typed.yaml", params |-> [count |-> S("abc")]]
    /\ status = "raised" /\ log[1].ev = "rejected"
    /\ exc.msg = "Parameter 'count' must be an integer"

\* The condition of the current action evaluates to false.
C7_ConditionFalse ==
    /\ AtAction
    /\ Truthy(Cur.condition)
    /\ ConditionOf(Ctx, Cur.condition).ok
    /\ ~ConditionOf(Ctx, Cur.condition).b

\* C7: the step of an action whose condition is false only moves on to the
\* next action: nothing is rendered, looked up or called (no such event, no
\* exception), and the context is unchanged.
C7_SkipHasNoEffect ==
    [][C7_ConditionFalse
         => /\ stack' = Advance(stack)
            /\ ctxs' = ctxs
            /\ exc' = NoExc
            /\ status' = status
            /\ Len(log') = Len(log) + 2
            /\ log'[Len(log) + 1].ev = "cond"
            /\ log'[Len(log) + 2].ev = "skip"]_vars

\* Actions with a false condition were skipped although one has arguments
\* that do not render and one is of an unregistered kind, and a later
\* action of the list has run.
C7_Witness ==
    /\ run.path = "skip.yaml"
    /\ \E i, j, k \in DOMAIN log :
        /\ i < j /\ j < k
        /\ log[i].ev = "skip" /\ log[i].k = "log" /\ log[i].index = 1
        /\ log[j].ev = "skip" /\ log[j].k = "nope" /\ log[j].index = 2
        /\ log[k].ev = "handler" /\ log[k].index > 2 /\ log[k].depth = 0

\* The while frames on the stack and the passes they have begun.
C8_PassesBounded ==
    \A i \in DOMAIN stack :
        (stack[i].k = "while" /\ "iteration" \in DOMAIN stack[i])
            => /\ stack[i].iteration >= 0
               /\ stack[i].iteration <= stack[i].max_iterations
                    \/ stack[i].iteration = 0

\* The scripts of the directory that are one while action with a non-empty
\* list, a condition that is always true, and a body that neither breaks
\* nor raises an error.
C8_EndlessScripts == {"w_ceiling.yaml", "w_continue.yaml", "w_zero.yaml", "w_default.yaml"}

\* C8 as stated: every while action whose condition is the constant True
\* ends by raising the ceiling error.
C8_AlwaysTrueEndsWithCeiling ==
    \A i \in DOMAIN log :
        (IsExit(log[i], "while") /\ "condition" \in DOMAIN log[i].h
         /\ log[i].h.condition = S("True"))
            => /\ log[i].outcome = "raise"
               /\ log[i].raised.cause = "ceiling"

\* C8 amended: no while action begins more than max_iterations passes; a
\* while action with a non-empty list whose condition is the constant True
\* ends by a break, by an error of its body, or by the ceiling error after
\* exactly max_iterations passes, never silently; and a run of such a loop
\* whose body neither breaks nor raises ends with the ceiling error.
C8_CeilingEnforced ==
    /\ [](/\ C8_PassesBounded
          /\ \A i \in DOMAIN log :
                (IsExit(log[i], "while") /\ "iteration" \in DOMAIN log[i].h
                 /\ log[i].h.condition = S("True"))
                    => IF log[i].outcome = "return" THEN log[i].h.ended = "break"
                       ELSE IF log[i].raised.cause = "ceiling"
                            THEN log[i].h.iteration = log[i].h.max_iterations
                                    \/ (log[i].h.iteration = 0
                                        /\ log[i].h.max_iterations < 0)
                       ELSE i > 1 /\ log[i - 1].ev \in {"exit", "unknown",
                                                         "render_error", "cond_error"})
    /\ (run.path \in C8_EndlessScripts)
           ~> (status = "raised" /\ exc.cause = "ceiling")

\* A loop with the default ceiling has begun 1000 passes and has been
\* stopped by the ceiling error.
C8_Witness ==
    /\ run.path = "w_default.yaml"
    /\ status = "raised"
    /\ exc.msg = "while loop exceeded max_iterations (1000)"
    /\ log[Len(log)].h.iteration = DefaultMaxIterations

\* The scripts of the directory whose macro calls itself.
C9_SelfRecursive == {"rec.yaml", "rec_try.yaml"}

\* C9: no execute runs at a depth of MAX_CALL_DEPTH or more; every run of a
\* macro that calls itself ends; and the run of the macro whose only action
\* is the call of itself ends with the maximum-call-depth error.
C9_RecursionTerminates ==
    /\ [](\A i \in DOMAIN stack :
            stack[i].k = "execute" => stack[i]._call_depth < MAX_CALL_DEPTH)
    /\ (run.path \in C9_SelfRecursive) ~> Ended
    /\ (run.path = "rec.yaml")
           ~> (/\ status = "raised"
               /\ exc.msg = "Maximum call depth exceeded (possible infinite recursion)")

\* The run of the self-recursive macro has ended with the depth error after
\* executes at every depth below MAX_CALL_DEPTH.
C9_Witness ==
    /\ run.path = "rec.yaml"
    /\ status = "raised"
    /\ exc.cause = "depth"
    /\ \A d \in 0..(MAX_CALL_DEPTH - 1) :
        \E i \in DOMAIN log : log[i].ev = "execute" /\ log[i].depth = d

\* C10: when the depth error has been raised during a run, the run does not
\* end normally: the error leaves the top-level execute.
C10_DepthErrorNotSwallowed ==
    (\E i \in DOMAIN log : IsRaise(log[i]) /\ log[i].raised.cause = "depth")
        => /\ status # "done"
           /\ status = "raised" => exc.cause = "depth"

(***************************************************************************)
(* C11.  A call action enters the called macro with a context that holds   *)
(* exactly the callee's default vars and the callee's declared            *)
(* parameters, each validated from the parameter the caller supplied      *)
(* under that name; its runtime layer is empty, and no other name the     *)
(* caller can read or has supplied is readable in it.                     *)
(***************************************************************************)
C11_Declared(macro) == {Str(macro.parameters[i].name) : i \in DOMAIN macro.parameters}

C11_Entered(d) ==
    Let2(find_macro(Str(d.args["macro"])).v,
         DictGet(d.args, "params", D(EmptyDict)).d,
         LAMBDA macro, supplied :
             Let(ctxs'[Len(ctxs')], LAMBDA callee :
                 /\ DOMAIN callee._params = C11_Declared(macro)
                 /\ \A i \in DOMAIN macro.parameters :
                        callee._params[Str(macro.parameters[i].name)]
                            = validate(macro.parameters[i],
                                       DictGet(supplied, Str(macro.parameters[i].name),
                                               None)).v
                 /\ callee._vars = macro.vars
                 /\ callee._runtime_vars = EmptyDict
                 /\ \A name \in (DOMAIN variables(Ctx) \cup DOMAIN supplied)
                                  \ (C11_Declared(macro) \cup DOMAIN macro.vars) :
                        get(callee, name, Undefined) = Undefined))

C11_CalleeIsolated ==
    [][\A d \in Invoke("call") : Len(ctxs') = Len(ctxs) + 1 => C11_Entered(d)]_vars

\* call_iso.yaml is in the called opt.yaml: the loop variable, the default
\* vars and the parameter of the caller, and the undeclared parameter it
\* supplied, are not readable.
C11_Witness ==
    /\ run.path = "call_iso.yaml"
    /\ Len(ctxs) = 2
    /\ DOMAIN variables(ctxs[1]) = {"token", "user", "home"}
    /\ ctxs[1]._runtime_vars = [token |-> I(0)]
    /\ ctxs[2]._params = [mode |-> S("fast"), user |-> S("boby")]
    /\ DOMAIN variables(ctxs[2]) = {"mode", "user", "level"}
    /\ \E i \in DOMAIN log : log[i].ev = "handler" /\ log[i].depth = 1

(***************************************************************************)
(* C12.  A loop-control signal never crosses a subroutine boundary: no    *)
(* call action ends by letting a LoopBreak or LoopContinue of the called  *)
(* macro out into the calling macro, where an enclosing loop would take   *)
(* it for its own.                                                        *)
(***************************************************************************)
C12_SignalStaysInCallee ==
    \A i \in DOMAIN log :
        IsExit(log[i], "call") /\ IsRaise(log[i]) => ~IsLoopSignal(log[i].left)

(***************************************************************************)
(* C13.  A repeat action with count n >= 0 and a non-empty body that      *)
(* raises no signal and no error runs the body exactly n times, with the  *)
(* loop variable bound to 0, 1, ..., n-1 in that order: every pass starts *)
(* with the loop variable bound to the number of passes made before it,   *)
(* which is below n; a pass that ends normally is followed by the pass    *)
(* numbered one higher or by the end of the loop; and the loop ends       *)
(* after n passes.                                                        *)
(***************************************************************************)
C13_InPass == /\ status = "running"
              /\ Len(stack) >= 3
              /\ Top.k = "list"
              /\ H.k = "repeat"

C13_PassStartsBound ==
    C13_InPass /\ Top.i = 1 /\ exc = NoExc
        => /\ H.i \in 0 .. H.count - 1
           /\ get(Ctx, Str(H.loop_var), Undefined) = I(H.i)

C13_PassesInOrder ==
    BodyEnded("repeat") /\ exc = NoExc /\ H.count >= 0
        => \/ /\ H.i + 1 < H.count
              /\ Len(stack') = Len(stack)
              /\ stack'[Len(stack') - 1] = [H EXCEPT !.i = H.i + 1]
              /\ stack'[Len(stack')] = ListFrame(H.parsed)
           \/ /\ H.i + 1 = H.count
              /\ Len(stack') = Len(stack) - 2
              /\ log'[Len(log')].outcome = "return"
              /\ log'[Len(log')].h = [H EXCEPT !.i = H.count]

C13_RepeatCounts == []C13_PassStartsBound /\ [][C13_PassesInOrder]_vars

\* typed.yaml with count "3" has ended: three passes of the body, the last
\* with i = 2, and the loop left after the third.
C13_Witness ==
    /\ status = "done"
    /\ run = [path |-> "typed.yaml", params |-> [count |-> S("3")]]
    /\ Cardinality({j \in DOMAIN log : log[j].ev = "handler" /\ log[j].k = "log"}) = 3
    /\ get(ctxs[1], "i", Undefined) = I(2)
    /\ \E j \in DOMAIN log :
          /\ IsExit(log[j], "repeat")
          /\ log[j].outcome = "return"
          /\ log[j].h.count = 3
          /\ log[j].h.i = 3

(***************************************************************************)
(* C14.  For every context and every name, get(name, d) is the value of   *)
(* the runtime layer if the name is set there, otherwise the parameter of *)
(* that name, otherwise the default var of that name, otherwise d; and    *)
(* after set(name, value) on a context, its get(name, d) is value.        *)
(***************************************************************************)
C14_Names == {"var", "new_var", "user", "base", "missing"}

C14_Layered(c, name, d) ==
    IF name \in DOMAIN c._runtime_vars THEN c._runtime_vars[name]
    ELSE IF name \in DOMAIN c._params THEN c._params[name]
    ELSE IF name \in DOMAIN c._vars THEN c._vars[name]
    ELSE d

C14_GetPrecedence ==
    \A d \in {None, S("default")} :
        /\ \A j \in DOMAIN ctxs : \A name \in C14_Names :
              get(Deref(heap, ctxs[j]), name, d)
                  = C14_Layered(Deref(heap, ctxs[j]), name, d)
        /\ log # <<>> /\ log[1].op = "set"
              => get(Deref(heap, ctxs[log[1].ctx]), log[1].name, d) = log[1].value

\* A context created with a parameter and a default var named `var`, after
\* set("var", "from_runtime").
C14_Witness ==
    /\ status = "library"
    /\ run = [unit |-> "MacroContext",
              params |-> [var |-> S("from_param"), user |-> S("john")],
              vars |-> [var |-> S("from_default"), base |-> S("value")]]
    /\ log = <<[op |-> "set", ctx |-> 1, name |-> "var", value |-> S("from_runtime")]>>
    /\ get(Deref(heap, ctxs[1]), "var", None) = S("from_runtime")

(***************************************************************************)
(* C15.  set changes only the runtime layer: whatever a run executes, the *)
(* parameter layer and the default-var layer of each context stay what    *)
(* they were when the context was created (for the context of the run:    *)
(* the validated parameters and the vars of the macro).                   *)
(***************************************************************************)
C15_CreatedLayers ==
    Len(ctxs) >= 1
        => Let(load_macro(run.path).v, LAMBDA macro :
               /\ ctxs[1]._params = validate_params(macro, run.params).v
               /\ ctxs[1]._vars = macro.vars)

C15_LayersKeptByStep ==
    \A j \in DOMAIN ctxs \cap DOMAIN ctxs' :
        /\ ctxs'[j]._params = ctxs[j]._params
        /\ ctxs'[j]._vars = ctxs[j]._vars

C15_SetKeepsLayers == []C15_CreatedLayers /\ [][C15_LayersKeptByStep]_vars

\* call_iso.yaml has ended: its loop set the variable `token`, which is
\* also a parameter, and the parameter layer still holds the default.
C15_Witness ==
    /\ status = "done"
    /\ run.path = "call_iso.yaml"
    /\ ctxs[1]._runtime_vars = [token |-> I(0)]
    /\ ctxs[1]._params = [token |-> S("t0")]
    /\ ctxs[1]._vars = [user |-> S("bob"), home |-> S("/h")]
    /\ get(ctxs[1], "token", None) = I(0)

(***************************************************************************)
(* C16.  copy() returns a context whose get results equal the original's  *)
(* for every name at the time of the copy (and leaves the original's as   *)
(* they were); afterwards a set on either of the two contexts leaves      *)
(* every get result of the other unchanged.                               *)
(***************************************************************************)
C16_Names == {"var", "new_var", "user", "base", "missing"}

C16_Gets(h, ref) ==
    [name \in C16_Names |->
        [d \in {None, S("default")} |-> get(Deref(h, ref), name, d)]]

C16_CopyStep ==
    Len(ctxs') = Len(ctxs) + 1
        => /\ log'[1].op = "copy"
           /\ C16_Gets(heap', ctxs'[Len(ctxs')]) = C16_Gets(heap, ctxs[log'[1].ctx])
           /\ \A k \in DOMAIN ctxs : C16_Gets(heap', ctxs'[k]) = C16_Gets(heap, ctxs[k])

C16_SetStep ==
    ctxs' = ctxs /\ log' # <<>> /\ log'[1].op = "set"
        => \A k \in DOMAIN ctxs \ {log'[1].ctx} :
               C16_Gets(heap', ctxs[k]) = C16_Gets(heap, ctxs[k])

C16_CopyIndependent == [][C16_CopyStep /\ C16_SetStep]_vars

\* A context with the runtime variable `var` was copied, and new_var was
\* then set on the copy: the copy reads both, the original only `var`.
C16_Witness ==
    /\ status = "library"
    /\ run.unit = "MacroContext"
    /\ Len(ctxs) = 2
    /\ run.params = [var |-> S("from_param"), user |-> S("john")]
    /\ log = <<[op |-> "set", ctx |-> 2, name |-> "new_var",
                value |-> S("from_runtime")]>>
    /\ Deref(heap, ctxs[1])._runtime_vars = [var |-> S("from_runtime")]
    /\ get(Deref(heap, ctxs[2]), "var", None) = S("from_runtime")
    /\ get(Deref(heap, ctxs[2]), "user", None) = S("john")
    /\ get(Deref(heap, ctxs[2]), "new_var", None) = S("from_runtime")
    /\ get(Deref(heap, ctxs[1]), "new_var", None) = None

(***************************************************************************)
(* C17.  evaluate_condition never raises: whenever an action carries a    *)
(* condition string, evaluating it in the context of the run returns a    *)
(* boolean, and returns false if rendering the condition fails.           *)
(***************************************************************************)
C17_Wrapped(cond) ==
    IF Contains(cond, "{{") THEN cond ELSE "{{ " \o cond \o " }}"

C17_NeverRaises ==
    AtAction /\ Cur.condition.t = "str" /\ Cur.condition.s # ""
        => Let2(evaluate_condition(Ctx, Cur.condition.s),
                render(Ctx, C17_Wrapped(Cur.condition.s)),
                LAMBDA result, rendered :
                    /\ result.ok
                    /\ ~rendered.ok => ~result.b)

(***************************************************************************)
(* C18.  render of a template that references a variable defined in no    *)
(* layer of the context raises an error whose message says "Undefined     *)
(* variable", and render of a malformed template raises an error whose    *)
(* message says "Template syntax error": for every template among the     *)
(* arguments of an action of the run, rendered in the context of the run. *)
(***************************************************************************)
RECURSIVE C18_NamesOf(_)
C18_NamesOf(ast) ==
    CASE ast.e \in {"var", "attr"} -> {ast.n}
      [] ast.e = "not" -> C18_NamesOf(ast.x)
      [] ast.e = "bin" -> C18_NamesOf(ast.l) \cup C18_NamesOf(ast.r)
      [] OTHER -> {}

C18_References(template) ==
    UNION {C18_NamesOf(template.parts[i].expr) :
               i \in {j \in DOMAIN template.parts : "expr" \in DOMAIN template.parts[j]}}

C18_Raises(r, words) == ~r.ok /\ r.exc.type = "ValueError" /\ Contains(r.exc.msg, words)

C18_RenderRaises ==
    AtAction
        => \A k \in DOMAIN Cur.args :
               Cur.args[k].t = "str" /\ Contains(Cur.args[k].s, "{{")
                   => Let2(JinjaCompile(Cur.args[k].s), render(Ctx, Cur.args[k].s),
                           LAMBDA template, r :
                               IF ~template.ok
                               THEN C18_Raises(r, "Template syntax error")
                               ELSE C18_References(template) \subseteq DOMAIN variables(Ctx)
                                       \/ C18_Raises(r, "Undefined variable"))

(***************************************************************************)
(* C19.  For every parameter declaration, validate(None) raises if and    *)
(* only if required is true and no default is set; in every other case    *)
(* it returns the declared default.                                       *)
(***************************************************************************)
C19_MissingValue ==
    log # <<>> /\ log[1].op = "validate" /\ run.value = None
        => /\ ~log[1].result.ok
                <=> (run.self.required = B(TRUE) /\ run.self.default = None)
           /\ log[1].result.ok => log[1].result.v = run.self.default

\* validate(None) of a required parameter that has a default has returned
\* the default.
C19_Witness ==
    /\ status = "library"
    /\ run.unit = "MacroParameter"
    /\ run.value = None
    /\ run.self.required = B(TRUE)
    /\ run.self.default = S("7")
    /\ log = <<[op |-> "validate", result |-> [ok |-> TRUE, v |-> S("7")]]>>

(***************************************************************************)
(* C20.  For every declared parameter type (string, integer, float,       *)
(* boolean, list) and every supplied value, validate either returns a     *)
(* value of the declared type or raises an error whose message names the  *)
(* parameter and the expected type.                                       *)
(***************************************************************************)
C20_TypeOf(type) ==
    CASE type = S("string") -> "str"
      [] type = S("integer") -> "int"
      [] type = S("float") -> "float"
      [] type = S("boolean") -> "bool"
      [] type = S("list") -> "list"

C20_Supplied ==
    /\ log # <<>>
    /\ log[1].op = "validate"
    /\ run.value # None
    /\ run.self.type \in {S("string"), S("integer"), S("float"), S("boolean"), S("list")}

C20_CoercedOrNamed ==
    C20_Supplied
        => IF log[1].result.ok
           THEN log[1].result.v.t = C20_TypeOf(run.self.type)
           ELSE /\ Contains(log[1].result.exc.msg, "'" \o Str(run.self.name) \o "'")
                /\ Contains(log[1].result.exc.msg, Str(run.self.type))

(***************************************************************************)
(* C21.  An action that is not skipped and names a kind with no           *)
(* registered handler.                                                    *)
(***************************************************************************)
C21_Unregistered ==
    /\ AtAction
    /\ Cur.action.t # "str" \/ Cur.action.s \notin ACTION_HANDLERS
    /\ Truthy(Cur.condition)
          => ConditionOf(Ctx, Cur.condition).ok /\ ConditionOf(Ctx, Cur.condition).b

C21_NoTryBegan ==
    \A m \in DOMAIN log : ~(log[m].ev = "handler" /\ log[m].k = "try")

\* C21 as stated: whenever a run has come to an action of an unregistered
\* kind that is not skipped, what it did there is raise the 'Unknown action'
\* execution error with the action's position, and no action begins later.
C21_UnknownEndsRun ==
    \A i \in DOMAIN log :
        log[i].ev \in {"unknown", "render_error"} /\ log[i].k \notin ACTION_HANDLERS
            => /\ log[i].ev = "unknown"
               /\ \A j \in DOMAIN log : j > i => log[j].ev = "exit"

\* C21, amended: when the arguments of such an action render, _execute_action
\* raises the 'Unknown action' execution error that carries the action's
\* 0-based position and its name, and leaves the list where it is; the list
\* an 'Unknown action' error comes out of is left at once, so no later
\* action of it is executed; and in a run that has begun no try action the
\* error stays the outcome of the run and no action begins after it.
C21_RaisesLabelled ==
    C21_Unregistered /\ _render_args(Cur.args, Ctx).ok
        => /\ exc'.type = "MacroExecutionError"
           /\ Contains(exc'.msg, "Unknown action: " \o Str(Cur.action))
           /\ exc'.action_index = I(Index)
           /\ exc'.action_name = Cur.name
           /\ stack' = stack
           /\ log'[Len(log')] = Ev("unknown", Str(Cur.action), Index)

C21_ListLeft ==
    status = "running" /\ exc.type # "none" /\ exc.cause = "unknown"
        => /\ \/ status' = "raised"
              \/ Len(stack') < Len(stack)
              \/ stack'[Len(stack)] # Top
           /\ \A j \in DOMAIN log' : j > Len(log) => log'[j].ev = "exit"

C21_Uncaught ==
    \A i \in DOMAIN log :
        log[i].ev = "unknown" /\ C21_NoTryBegan
            => /\ status # "done"
               /\ exc.type = "MacroExecutionError"
               /\ exc.cause = "unknown"
               /\ exc.action_index = I(log[i].index)
               /\ \A j \in DOMAIN log : j > i => log[j].ev = "exit"

C21_UnknownRaises ==
    []C21_Uncaught /\ [][C21_RaisesLabelled /\ C21_ListLeft]_vars

\* unknown.yaml has ended with the error of its second action, named
\* `step`; the first action ran, the third did not.
C21_Witness ==
    /\ status = "raised"
    /\ run.path = "unknown.yaml"
    /\ exc.type = "MacroExecutionError"
    /\ exc.action_index = I(1)
    /\ exc.action_name = S("step")
    /\ {log[i].index : i \in {j \in DOMAIN log : log[j].ev = "handler"}} = {0}
    /\ \E i \in DOMAIN log : log[i].ev = "unknown" /\ log[i].index = 1

(***************************************************************************)
(* C22.  Every Macro the parser produces has a non-empty name, and every  *)
(* action object built from a script has a non-empty action kind: the     *)
(* macro of the run, and the actions of every list that is running, the   *)
(* top-level list built at load time and the nested lists built by the    *)
(* flow-control handlers.                                                 *)
(***************************************************************************)
C22_NonEmpty(v) == v.t = "str" /\ v.s # ""

C22_NamesAndKinds ==
    status = "running"
        => /\ C22_NonEmpty(load_macro(run.path).v.name)
           /\ \A f \in DOMAIN stack :
                  stack[f].k = "list"
                      => \A a \in DOMAIN stack[f].actions :
                             C22_NonEmpty(stack[f].actions[a].action)

(***************************************************************************)
(* C23: the index over a directory with files that do not parse.          *)
(***************************************************************************)
\* The files of the directory that load_macros globs.
C23_Globbed(directory) ==
    {i \in DOMAIN directory : \/ HasSuffix(directory[i].path, ".yaml")
                              \/ HasSuffix(directory[i].path, ".yml")}

\* C23: load_macros never fails because of a file that does not parse: it
\* returns an index holding, under its declared name, every file of the
\* directory that load_macro loads, and nothing else; load_macro on a file
\* that does not parse raises a MacroParseError carrying the file path.
C23_IndexSkipsMalformed ==
    status = "library" /\ log # <<>> /\ run.unit = "directory" =>
        Let([i \in DOMAIN run.directory |->
                load_macro_of(run.directory, run.directory[i].path)],
            LAMBDA loaded :
              /\ log[1].op = "load_macros" =>
                   /\ log[1].result.ok
                   /\ \A i \in C23_Globbed(run.directory) :
                         loaded[i].ok =>
                            /\ Str(loaded[i].v.name) \in DOMAIN log[1].result.v
                            /\ log[1].result.v[Str(loaded[i].v.name)].name
                                  = loaded[i].v.name
                   /\ \A name \in DOMAIN log[1].result.v :
                         \E i \in C23_Globbed(run.directory) :
                            loaded[i].ok /\ log[1].result.v[name] = loaded[i].v
              /\ log[1].op = "load_macro" /\ ~log[1].result.ok =>
                   /\ log[1].result.exc.type = "MacroParseError"
                   /\ log[1].result.exc.file_path = S(log[1].path))

(***************************************************************************)
(* C24.  Two executions, each with an executor of its own, of one loaded  *)
(* macro: the k-th context is the one execute created for the k-th run,   *)
(* and every variable a run writes (as, store_as, error_as, the loop      *)
(* variables, _return_value) goes through set on the context of that run. *)
(* The calls of set of the two runs are interleaved in every order.       *)
(***************************************************************************)
C24_Names == {"var", "new_var", "user", "base"}

\* What a run reads: the variables of its context.
C24_Variables(h, ref) == variables(Deref(h, ref))

\* A write of one run changes what that run reads as it would alone, and
\* nothing of what the other run reads.
C24_WriteStep ==
    run.unit = "executions" /\ log' # <<>> /\ log'[1].op = "set" /\ ctxs' = ctxs
        => Let(log'[1], LAMBDA call :
               /\ C24_Variables(heap', ctxs[call.ctx])
                     = variables(set(Deref(heap, ctxs[call.ctx]), call.name, call.value))
               /\ \A k \in DOMAIN ctxs \ {call.ctx} :
                     /\ C24_Variables(heap', ctxs[k]) = C24_Variables(heap, ctxs[k])
                     /\ \A name \in C24_Names : \A d \in {None, S("default")} :
                           get(Deref(heap', ctxs[k]), name, d)
                               = get(Deref(heap, ctxs[k]), name, d))

\* What a run reads is made of the parameters it was started with, the
\* vars of the macro, and the writes of that run only: a variable that
\* neither the macro nor the run's own parameters define is readable in a
\* run only after that run wrote it.
C24_OwnWrites ==
    run.unit = "executions" =>
        \A k \in {1, 2} :
            /\ Deref(heap, ctxs[k])._vars = run.macro.vars
            /\ Deref(heap, ctxs[k])._params
                  = execute_begin(0, run.macro, run.started[k]).ctx._params
            /\ log = <<>> => Deref(heap, ctxs[k])._runtime_vars = EmptyDict

\* C24: script runs share no mutable state: no variable written by one run
\* is readable in the other, and each run reads what it would read alone,
\* whatever the order of the writes of the two runs.
C24_RunsIsolated == []C24_OwnWrites /\ [][C24_WriteStep]_vars

\* The first run has set `var` and then the second run has set new_var: the
\* first reads its own value of var and no new_var, the second reads the
\* default of var and its new_var.
C24_Witness ==
    /\ status = "library"
    /\ run.unit = "executions"
    /\ run.started = <<EmptyDict, [user |-> S("john")]>>
    /\ log = <<[op |-> "set", ctx |-> 2, name |-> "new_var", value |-> S("from_runtime")]>>
    /\ get(Deref(heap, ctxs[1]), "var", None) = S("from_runtime")
    /\ get(Deref(heap, ctxs[1]), "new_var", None) = None
    /\ get(Deref(heap, ctxs[1]), "user", None) = None
    /\ get(Deref(heap, ctxs[2]), "var", None) = S("from_default")
    /\ get(Deref(heap, ctxs[2]), "new_var", None) = S("from_runtime")
    /\ get(Deref(heap, ctxs[2]), "user", None) = S("john")

(***************************************************************************)
(* C25.  A pass of a while loop has just been entered: the body list is   *)
(* at its first action, in the context the check before the pass saw.     *)
(***************************************************************************)
C25_InPass ==
    /\ status = "running"
    /\ exc = NoExc
    /\ Len(stack) >= 3
    /\ Top.k = "list"
    /\ Top.i = 1
    /\ H.k = "while"

\* The condition argument as the script writes it: that of the while
\* action in the list the loop belongs to.
C25_Written ==
    Let(stack[Len(stack) - 2], LAMBDA list : list.actions[list.i].args["condition"])

\* C25: the while action evaluates its condition against the current
\* context before every pass, for a bare expression and for one inside
\* template markers: a pass is entered only when the condition the script
\* wrote is true of the context at that moment.
C25_ConditionSeenEachPass ==
    C25_InPass => Let(ConditionOf(Ctx, C25_Written), LAMBDA cond : cond.ok /\ cond.b)

(***************************************************************************)
(* C26.  A list of an if action has just been entered: it is at its first *)
(* action, in the context the action was dispatched in.                   *)
(***************************************************************************)
C26_InBranch ==
    /\ status = "running"
    /\ exc = NoExc
    /\ Len(stack) >= 3
    /\ Top.k = "list"
    /\ Top.i = 1
    /\ H.k = "if"

\* The if action in the list it belongs to, as the script writes it.
C26_Written == Let(stack[Len(stack) - 2], LAMBDA list : list.actions[list.i])

\* C26: the if action executes its then list exactly when its condition
\* argument is true by evaluate_condition in the context of the dispatch,
\* and its else list otherwise, for a bare expression and for one inside
\* template markers: the list entered is the then list when the condition
\* the script wrote is true, and the else list when it is not.
C26_BranchFollowsCondition ==
    C26_InBranch =>
        Let(ConditionOf(Ctx, C26_Written.args["condition"]), LAMBDA cond :
            /\ cond.ok
            /\ H.branch = (IF cond.b THEN "then" ELSE "else")
            /\ Top.actions = _parse_actions(C26_Written.args[H.branch]).v)

(***************************************************************************)
(* C27.  A list has ended by a loop signal inside a handler's frame H.    *)
(***************************************************************************)
C27_LoopKinds == {"repeat", "while", "foreach"}

C27_Signalled == ListEnded /\ IsLoopSignal(exc) /\ Len(stack) >= 3

\* The frames below the handler H and the list it ran.
C27_Below == SubSeq(stack, 1, Len(stack) - 2)

\* The loop H is left normally: its action has returned and the list the
\* loop belongs to is at its next action, every frame below unchanged.
C27_LoopLeft ==
    /\ exc' = NoExc
    /\ stack' = [C27_Below EXCEPT ![Len(stack) - 2].i = @ + 1]
    /\ Len(log') = Len(log) + 1
    /\ IsExit(log'[Len(log')], H.k)
    /\ log'[Len(log')].outcome = "return"

\* The next pass of the loop H starts: the body list from its first action,
\* every frame below unchanged.
C27_NextPass ==
    /\ exc' = NoExc
    /\ Len(stack') = Len(stack)
    /\ SubSeq(stack', 1, Len(stack) - 2) = C27_Below
    /\ stack'[Len(stack) - 1].k = H.k
    /\ stack'[Len(stack) - 1].parsed = H.parsed
    /\ stack'[Len(stack)] = ListFrame(H.parsed)
    /\ log' = log

\* Whether the loop H has a pass after the current one.
C27_HasNext ==
    CASE H.k = "repeat" -> H.i + 1 < H.count
      [] H.k = "foreach" -> H.i + 1 < Len(H.items)
      [] H.k = "while" -> /\ ConditionOf(Ctx, H.condition) = [ok |-> TRUE, b |-> TRUE]
                          /\ H.iteration < H.max_iterations

\* The while loop H has used up its passes while its condition still holds.
C27_Ceiling ==
    /\ H.k = "while"
    /\ ConditionOf(Ctx, H.condition) = [ok |-> TRUE, b |-> TRUE]
    /\ H.iteration >= H.max_iterations
    /\ stack' = C27_Below
    /\ exc'.type = "MacroExecutionError"
    /\ exc'.cause = "ceiling"

\* The signal leaves the if or try action H: nothing is caught, no catch or
\* finally list is started, no variable is written, and the signal is what
\* the list around the action ends with.
C27_PassedOn ==
    /\ stack' = C27_Below
    /\ exc' = exc
    /\ ctxs' = ctxs
    /\ Len(log') = Len(log) + 1
    /\ IsExit(log'[Len(log')], H.k)
    /\ log'[Len(log')].outcome = "raise"
    /\ log'[Len(log')].left = exc

C27_SignalStep ==
    C27_Signalled =>
        /\ H.k \in C27_LoopKinds /\ exc.type = "LoopBreak" => C27_LoopLeft
        /\ H.k \in C27_LoopKinds /\ exc.type = "LoopContinue" =>
              IF C27_HasNext THEN C27_NextPass
              ELSE C27_LoopLeft \/ C27_Ceiling
        /\ H.k \in {"if", "try"} => C27_PassedOn

\* C27: a break or continue signal is consumed by the innermost enclosing
\* loop and by nothing else, also from inside if and try blocks: break
\* leaves that loop only, continue goes on with its next pass, and the
\* actions after the loop and the passes of the loops around it still run.
C27_InnermostLoopConsumes == [][C27_SignalStep]_vars

\* nested_signal.yaml has ended: in the first pass of the outer loop the
\* break inside if inside try left the inner loop at its first item, in the
\* second the continue skipped the rest of both passes of the inner loop;
\* the only log actions executed are the one after the inner loop, in both
\* passes of the outer loop, and the one after the outer loop.
C27_Witness ==
    /\ status = "done"
    /\ run.path = "nested_signal.yaml"
    /\ Cardinality({j \in DOMAIN log : log[j].ev = "handler" /\ log[j].k = "log"}) = 3
    /\ Cardinality({j \in DOMAIN log : IsRaise(log[j]) /\ log[j].k = "try"
                                       /\ IsLoopSignal(log[j].left)}) = 3
    /\ Cardinality({j \in DOMAIN log : IsExit(log[j], "foreach")
                                       /\ log[j].outcome = "return"}) = 2
    /\ Cardinality({j \in DOMAIN log : IsExit(log[j], "repeat")
                                       /\ log[j].outcome = "return"}) = 1

(***************************************************************************)
(* C28.  A loop signal outside any loop: no repeat, while or foreach is   *)
(* running, in the macro or in a macro that called it.                    *)
(***************************************************************************)
C28_Stray ==
    /\ status = "running"
    /\ IsLoopSignal(exc)
    /\ \A j \in DOMAIN stack : stack[j].k \notin {"repeat", "while", "foreach"}

\* Every step of a stray signal unwinds: the signal stays what it is, no
\* list is started (no catch, no finally, no later action), no variable of
\* a running macro is written, and the only thing that happens is that the
\* action around the signal is left by it.
C28_Unwinds ==
    C28_Stray =>
        /\ exc' = exc
        /\ Len(stack') < Len(stack)
        /\ \A j \in DOMAIN stack' : stack'[j] = stack[j]
        /\ \A j \in DOMAIN ctxs' : ctxs'[j] = ctxs[j]
        /\ status' \in {"running", "raised"}
        /\ SubSeq(log', 1, Len(log)) = log
        /\ \A j \in (Len(log) + 1)..Len(log') : IsRaise(log'[j]) /\ log'[j].left = exc

\* What execute raised is a raw signal whenever a signal reached it.
C28_RaisedRaw ==
    status = "raised" /\ log # <<>> /\ log[Len(log)].ev = "exit"
        /\ IsLoopSignal(log[Len(log)].raised)
        => exc = log[Len(log)].raised

\* C28: a break or continue outside any loop leaves execute as the raw
\* signal: no try action catches it or binds its error variable, nothing
\* converts it, and no action after it is executed.
C28_StraySignalLeaves == []C28_RaisedRaw /\ [][C28_Unwinds]_vars

\* try_stray.yaml has ended: the continue inside if inside the try body
\* left execute as LoopContinue; of the log actions only the first of the
\* body ran, and the error variable of the try action is unbound.
C28_Witness ==
    /\ status = "raised"
    /\ run.path = "try_stray.yaml"
    /\ exc.type = "LoopContinue"
    /\ Cardinality({j \in DOMAIN log : log[j].ev = "handler" /\ log[j].k = "log"}) = 1
    /\ get(ctxs[1], "err", Undefined) = Undefined
    /\ \E j \in DOMAIN log : IsRaise(log[j]) /\ log[j].k = "try" /\ log[j].left = exc

(***************************************************************************)
(* C29.  The executors of the running executes, outermost first.          *)
(***************************************************************************)
C29_Executes == SelectSeq(stack, LAMBDA f : f.k = "execute")

\* The events of _execute_action dispatching an action.
C29_Dispatches ==
    {j \in DOMAIN log :
        log[j].ev \in {"cond", "skip", "handler", "unknown", "cond_error", "render_error"}}

\* C29: the executor of a call has its parent's depth plus one, the root
\* executor has 0, no action is dispatched by an executor of depth
\* MAX_CALL_DEPTH or more, and at most MAX_CALL_DEPTH macros are running.
C29_DepthChain ==
    /\ \A k \in DOMAIN C29_Executes : C29_Executes[k]._call_depth = k - 1
    /\ Len(C29_Executes) <= MAX_CALL_DEPTH
    /\ Len(ctxs) <= MAX_CALL_DEPTH
    /\ \A j \in C29_Dispatches : log[j].depth < MAX_CALL_DEPTH
    /\ \A j \in DOMAIN log : log[j].ev = "execute" => log[j].depth < MAX_CALL_DEPTH
    /\ AtAction => Executor._call_depth < MAX_CALL_DEPTH

\* The macro that calls itself is running in MAX_CALL_DEPTH executors, the
\* innermost about to dispatch its call action.
C29_Witness ==
    /\ run.path = "rec.yaml"
    /\ AtAction
    /\ Len(C29_Executes) = MAX_CALL_DEPTH
    /\ Executor._call_depth = MAX_CALL_DEPTH - 1
    /\ Len(ctxs) = MAX_CALL_DEPTH

(***************************************************************************)
(* C30.  A parse error and the handlers invoked before it.                *)
(***************************************************************************)
\* The exits of an action by a MacroParseError: an action entry of the
\* macro's action tree was found malformed.
C30_ParseFailures ==
    {j \in DOMAIN log : IsRaise(log[j]) /\ log[j].raised.type = "MacroParseError"}

\* C30: a parse error never follows a side effect: when an action entry of
\* a macro's action tree, at the top level or nested, is malformed, the
\* failure is raised before any action handler of that macro has been
\* invoked (other than the invocation that reports the failure).
C30_ParseErrorBeforeHandlers ==
    \A j \in C30_ParseFailures :
        \A i \in 1..(j - 1) :
            log[i].ev = "handler" /\ log[i].depth = log[j].depth
                => i = j - 1 /\ log[i].k = log[j].k /\ log[i].index = log[j].index

(***************************************************************************)
(* C31.  The order of dispatch within a list, and the end of every list   *)
(* once an error is raised that no try action catches.                    *)
(***************************************************************************)
C31_DispatchEvents == {"cond", "skip", "handler", "unknown", "cond_error", "render_error"}

\* The events the step appends to the log.
C31_Appended == {j \in DOMAIN log' : j > Len(log)}

\* A step dispatches the action the innermost list is at, with no error
\* pending, and moves a list by at most one action: a list goes on to its
\* next action only when it is the innermost list again (the action it was
\* at has completed) and nothing is raised.
C31_InOrder ==
    /\ \A j \in C31_Appended :
          log'[j].ev \in C31_DispatchEvents => AtAction /\ log'[j].index = Index
    /\ \A j \in DOMAIN stack \cap DOMAIN stack' :
          stack[j].k = "list" /\ stack'[j].k = "list" =>
              \/ stack'[j] = stack[j]
              \/ /\ stack'[j] = [stack[j] EXCEPT !.i = @ + 1]
                 /\ j = Len(stack')
                 /\ exc' = NoExc
                 /\ stack[j].i <= Len(stack[j].actions)
              \/ /\ j = Len(stack) /\ j = Len(stack')
                 /\ ListEnded
                 /\ stack'[j].i = 1

\* An error is pending that no try action will catch: no try action on the
\* stack is running its body.
C31_Uncaught ==
    /\ status = "running"
    /\ exc # NoExc
    /\ ~IsLoopSignal(exc)
    /\ \A j \in DOMAIN stack : stack[j].k = "try" => stack[j].phase # "body"

\* From then on every step leaves a list or the macro: nothing is
\* dispatched, no list is started, and an error stays pending.
C31_Aborts ==
    C31_Uncaught =>
        /\ Len(stack') < Len(stack)
        /\ \A j \in DOMAIN stack' : stack'[j] = stack[j]
        /\ exc' # NoExc /\ ~IsLoopSignal(exc')
        /\ exc'.msg = exc.msg \/ exc'.wrapped = exc.wrapped + 1
        /\ status' \in {"running", "raised"}
        /\ \A j \in C31_Appended : IsRaise(log'[j])

\* C31: the actions of a list are dispatched in list order, each completing
\* before the next starts, and after an error that no enclosing try action
\* catches no later action of the list, of an enclosing list or of the
\* calling macro is dispatched.
C31_OrderAndAbort == [][C31_InOrder /\ C31_Aborts]_vars

\* call_fail.yaml has ended by the error of the macro it calls from an if
\* block inside a loop: the only log action executed is the one of the
\* called macro that precedes its fail action.
C31_Witness ==
    /\ status = "raised"
    /\ run.path = "call_fail.yaml"
    /\ exc.type = "MacroExecutionError"
    /\ exc.msg = "stop"
    /\ {log[j].depth : j \in {i \in DOMAIN log : log[i].ev = "handler" /\ log[i].k = "log"}}
          = {1}
    /\ Cardinality({j \in DOMAIN log : log[j].ev = "handler" /\ log[j].k = "repeat"}) = 1
    /\ \E j \in DOMAIN log : IsRaise(log[j]) /\ log[j].k = "repeat"

(***************************************************************************)
(* C32.  The contexts of the running macros, the caller's before the      *)
(* callee's: ctxs[j] is the context of the j-th running execute.          *)
(***************************************************************************)
C32_Names == {"i", "user", "home", "token", "_return_value", "error", "missing"}

C32_Gets(c) == [name \in C32_Names |-> get(c, name, Undefined)]

\* Only the innermost context is written: a step leaves the context of
\* every macro that is waiting for a call to end as it is; a call starts
\* the callee in a context of its own without writing the caller's; and
\* when the callee's execute returns or raises, its context is dropped and
\* the caller goes on in its context as it was when the call was dispatched.
C32_Step ==
    status = "running" =>
        /\ \A j \in 1..(Len(ctxs) - 1) :
              /\ j \in DOMAIN ctxs'
              /\ ctxs'[j] = ctxs[j]
              /\ C32_Gets(ctxs'[j]) = C32_Gets(ctxs[j])
        /\ Len(ctxs') > Len(ctxs) =>
              /\ Len(ctxs') = Len(ctxs) + 1
              /\ ctxs'[Len(ctxs)] = ctxs[Len(ctxs)]
        /\ Len(ctxs') < Len(ctxs) =>
              /\ ctxs' = SubSeq(ctxs, 1, Len(ctxs) - 1)
              /\ IsExit(log'[Len(log')], "call")

\* C32: a call action leaves the caller's context unchanged, whether the
\* callee completes or raises: what the callee set is discarded with its
\* context, and every get on the caller's context returns after the call
\* what it returned before.
C32_CallLeavesCaller == [][C32_Step]_vars

\* call_frame.yaml has ended: a callee that bound the loop variable i
\* returned, a callee that set _return_value returned, and a callee raised;
\* the caller still reads its own i and no _return_value.
C32_Witness ==
    /\ status = "raised"
    /\ run.path = "call_frame.yaml"
    /\ Len(ctxs) = 1
    /\ variables(ctxs[1]) = [i |-> S("mine")]
    /\ get(ctxs[1], "_return_value", Undefined) = Undefined
    /\ Cardinality({j \in DOMAIN log : IsExit(log[j], "call")
                                       /\ log[j].outcome = "return"}) = 2
    /\ Cardinality({j \in DOMAIN log : IsExit(log[j], "call") /\ IsRaise(log[j])}) = 1
    /\ \E j \in DOMAIN log : log[j].ev = "handler" /\ log[j].k = "return" /\ log[j].depth = 1

(***************************************************************************)
(* C33.  The arguments a handler is invoked with.                         *)
(***************************************************************************)
C33_Reserved == {"then", "else", "actions", "catch", "finally"}

\* The action a handler frame at position j of the stack belongs to, as
\* the list below it holds it.
C33_ActionOf(j) == stack[j - 1].actions[stack[j - 1].i]

\* C33: when an action is dispatched, the values under the reserved keys
\* reach the handler identical to the raw data of the script, and every
\* other argument value reaches it as render_value of it: so for the action
\* about to be dispatched, and for every flow-control handler that is
\* running, whose lists are the ones parsed from the raw data.
C33_ArgsReachHandler ==
    /\ AtAction =>
          Let(_execute_action_begin(Cur, Ctx), LAMBDA b :
              b.outcome = "handler" =>
                  /\ DOMAIN b.args = DOMAIN Cur.args
                  /\ \A k \in DOMAIN Cur.args :
                        IF k \in C33_Reserved THEN b.args[k] = Cur.args[k]
                        ELSE render_value(Ctx, Cur.args[k]) = [ok |-> TRUE, v |-> b.args[k]])
    /\ status = "running" =>
          \A j \in 2..Len(stack) :
              /\ stack[j].k \in {"repeat", "while", "foreach"} =>
                    stack[j].parsed = _parse_actions(C33_ActionOf(j).args["actions"]).v
              /\ stack[j].k = "try" =>
                    /\ stack[j].catch_data = DictGet(C33_ActionOf(j).args, "catch", L(<<>>))
                    /\ stack[j].finally_data
                          = DictGet(C33_ActionOf(j).args, "finally", L(<<>>))

\* typed.yaml was started with count "2" and its repeat action has been
\* dispatched: the handler got the count rendered from "{{ count }}" and
\* the nested log entry with its template unrendered.
C33_Witness ==
    /\ status = "running"
    /\ run = [path |-> "typed.yaml", params |-> [count |-> S("2")]]
    /\ Len(stack) = 4
    /\ C33_ActionOf(3).args["count"] = S("{{ count }}")
    /\ H.k = "repeat"
    /\ H.count = 2
    /\ H.parsed[1].args = [message |-> S("pass {{ i }}")]
    /\ Top.i = 1

(***************************************************************************)
(* C34.  The passes of a foreach action.  H.items are the elements the    *)
(* loop iterates, H.i the number of passes made before the current one.   *)
(***************************************************************************)
C34_InPass ==
    /\ status = "running"
    /\ Len(stack) >= 3
    /\ Top.k = "list"
    /\ H.k = "foreach"

\* The elements the items argument stands for: those of a list; for a
\* text, as many as it has commas plus one, none with blanks around it.
C34_ElementsOf(items, elements) ==
    IF items.t = "list" THEN elements = items.l
    ELSE items.t = "str" =>
            /\ Len(elements)
                  = 1 + Cardinality({p \in 1..Len(items.s) : SubSeq(items.s, p, p) = ","})
            /\ \A p \in DOMAIN elements :
                  /\ elements[p].t = "str"
                  /\ Contains(items.s, elements[p].s)
                  /\ elements[p].s = "" \/ /\ SubSeq(elements[p].s, 1, 1) # " "
                                           /\ SubSeq(elements[p].s, Len(elements[p].s),
                                                     Len(elements[p].s)) # " "

\* A pass starts with the item variable bound to the element of its
\* position and the index variable, when given, to that position.
C34_PassStartsBound ==
    C34_InPass /\ Top.i = 1 /\ exc = NoExc =>
        Let(C33_ActionOf(Len(stack) - 1).args, LAMBDA args :
            /\ C34_ElementsOf(args["items"], H.items)
            /\ H.i \in 0 .. Len(H.items) - 1
            /\ H.loop_var = DictGet(args, "as", S("item"))
            /\ get(Ctx, Str(H.loop_var), Undefined) = H.items[H.i + 1]
            /\ "index_as" \in DOMAIN args =>
                  get(Ctx, Str(args["index_as"]), Undefined) = I(H.i))

\* The end of a pass: break leaves the loop; a normal end and continue go
\* on with the next element, or leave the loop after the last one.
C34_PassesInOrder ==
    BodyEnded("foreach") /\ (exc = NoExc \/ IsLoopSignal(exc)) =>
        IF exc.type # "LoopBreak" /\ H.i + 1 < Len(H.items)
        THEN /\ Len(stack') = Len(stack)
             /\ stack'[Len(stack') - 1] = [H EXCEPT !.i = H.i + 1]
             /\ stack'[Len(stack')] = ListFrame(H.parsed)
             /\ exc' = NoExc
        ELSE /\ stack' = Advance(Pop(2))
             /\ exc' = NoExc
             /\ ctxs' = ctxs
             /\ log'[Len(log')].outcome = "return"

\* A foreach whose items are empty executes nothing and binds nothing.
C34_EmptyItems ==
    AtAction /\ Cur.action = S("foreach") /\ ~Truthy(Cur.condition)
        /\ ~Truthy(Cur.args["items"])
        => /\ stack' = Advance(stack)
           /\ ctxs' = ctxs
           /\ exc' = NoExc

\* C34: a foreach action with a non-empty body runs the body once per
\* element of its items, in order, with the item variable and, when given,
\* the index variable bound; break ends the loop, continue moves to the
\* next element, and empty items execute and bind nothing.
C34_ForeachIterates ==
    []C34_PassStartsBound /\ [][C34_PassesInOrder /\ C34_EmptyItems]_vars

\* foreach_more.yaml has ended: two loops over empty items ran nothing; the
\* loop over x, y, z made three passes, the second cut short by continue;
\* the loop over " p , q" two.  The variables keep the last bindings, and
\* `item`, a default var, is shadowed only by the last loop.
C34_Witness ==
    /\ status = "done"
    /\ run.path = "foreach_more.yaml"
    /\ Cardinality({j \in DOMAIN log : log[j].ev = "handler" /\ log[j].k = "log"}) = 4
    /\ Cardinality({j \in DOMAIN log : log[j].ev = "handler" /\ log[j].k = "if"}) = 3
    /\ Cardinality({j \in DOMAIN log : IsExit(log[j], "foreach")
                                       /\ log[j].outcome = "return"}) = 4
    /\ get(ctxs[1], "e", Undefined) = S("z")
    /\ get(ctxs[1], "k", Undefined) = I(2)
    /\ get(ctxs[1], "item", Undefined) = S("q")

(***************************************************************************)
(* C35.  The step of a return action.                                     *)
(***************************************************************************)
\* The step dispatches the return action the list is at and invokes its
\* handler.
C35_Returns ==
    /\ AtAction
    /\ Cur.action = S("return")
    /\ Len(log') > Len(log)
    /\ log'[Len(log')] = Ev("handler", "return", Index)

\* The value of the return action: its rendered `value` argument, None
\* when it has none.
C35_Value ==
    IF "value" \in DOMAIN Cur.args THEN render_value(Ctx, Cur.args["value"]).v ELSE None

C35_ReturnStep ==
    C35_Returns =>
        /\ Len(ctxs') = Len(ctxs)
        /\ get(ctxs'[Len(ctxs)], "_return_value", Undefined) = C35_Value
        /\ \A name \in (DOMAIN variables(Ctx) \cup DOMAIN variables(ctxs'[Len(ctxs)]))
                          \ {"_return_value"} :
              get(ctxs'[Len(ctxs)], name, Undefined) = get(Ctx, name, Undefined)
        /\ ctxs'[Len(ctxs)]._params = Ctx._params
        /\ ctxs'[Len(ctxs)]._vars = Ctx._vars
        /\ \A j \in 1..(Len(ctxs) - 1) : ctxs'[j] = ctxs[j]

\* C35: after a return action with value v, get('_return_value') on the
\* context it executed in returns v, a later return replaces it, and no
\* other variable of that context is changed.
C35_ReturnValueStored == [][C35_ReturnStep]_vars

\* returns.yaml has ended after four return actions: the last one, without
\* a value, replaced the list [2] of the one before by None, over the
\* default var of the same name; x is what it was.
C35_Witness ==
    /\ status = "done"
    /\ run.path = "returns.yaml"
    /\ Cardinality({j \in DOMAIN log : log[j].ev = "handler" /\ log[j].k = "return"}) = 4
    /\ get(ctxs[1], "_return_value", Undefined) = None
    /\ ctxs[1]._vars = [x |-> I(1), _return_value |-> S("default")]
    /\ get(ctxs[1], "x", Undefined) = I(1)
    /\ DOMAIN ctxs[1]._runtime_vars = {"_return_value", "i"}

(***************************************************************************)
(* C36.  What follows a return action.                                    *)
(***************************************************************************)
\* The step of a return action moves its list on to the next action and
\* raises nothing; the lists and handlers around it stay as they are.
C36_GoesOn ==
    C35_Returns =>
        /\ status' = "running"
        /\ exc' = NoExc
        /\ stack' = [stack EXCEPT ![Len(stack)].i = @ + 1]

\* The actions run by returns.yaml when it has ended: all five log
\* actions, the one in the loop in both passes.
C36_AllRan ==
    run.path = "returns.yaml" /\ Ended =>
        /\ status = "done"
        /\ Cardinality({j \in DOMAIN log : log[j].ev = "handler" /\ log[j].k = "log"}) = 5
        /\ \E j \in DOMAIN log :
              IsExit(log[j], "repeat") /\ log[j].outcome = "return" /\ log[j].h.i = 2

\* C36: a return action does not end the run of its macro: the actions
\* after it in its list and in the enclosing lists are still executed, and
\* a return in a loop body does not end the loop.
C36_ReturnGoesOn == []C36_AllRan /\ [][C36_GoesOn]_vars

\* w_stop.yaml has ended: the return in the body of the while loop set the
\* value the condition reads, the loop ended by its condition after that
\* pass, and the log action after the loop ran.
C36_Witness ==
    /\ status = "done"
    /\ run.path = "w_stop.yaml"
    /\ get(ctxs[1], "_return_value", Undefined) = B(TRUE)
    /\ \E j \in DOMAIN log :
          /\ IsExit(log[j], "while")
          /\ log[j].outcome = "return"
          /\ log[j].h.ended = "condition"
          /\ \E i \in (j + 1)..Len(log) : log[i].ev = "handler" /\ log[i].k = "log"

(***************************************************************************)
(* C37.  When the arguments of a nested action are rendered.              *)
(***************************************************************************)
C37_FlowKinds == {"if", "repeat", "while", "foreach", "try"}

\* The key of the enclosing action whose data the list of the handler
\* frame h was parsed from.
C37_KeyOf(h) ==
    CASE h.k = "if" -> h.branch
      [] h.k = "try" -> (IF h.phase = "body" THEN "actions" ELSE h.phase)
      [] OTHER -> "actions"

\* Every list that runs in a flow-control block holds the nested actions
\* as parsed from the raw data of the enclosing action: their argument
\* values are the templates of the script.
C37_NestedUnrendered ==
    status = "running" =>
        \A j \in 3..(Len(stack) - 1) :
            stack[j].k \in C37_FlowKinds /\ stack[j + 1].k = "list" =>
                stack[j + 1].actions
                    = _parse_actions(C33_ActionOf(j).args[C37_KeyOf(stack[j])]).v

\* A return action nested in a flow-control block stores the value
\* rendered from its template in the context as it is at this step.
C37_RenderedNow ==
    C35_Returns /\ Len(stack) > 2 /\ H.k \in C37_FlowKinds /\ "value" \in DOMAIN Cur.args =>
        get(ctxs'[Len(ctxs)], "_return_value", Undefined)
            = render_value(Ctx, Cur.args["value"]).v

\* nested_tpl.yaml, from pass to pass: the value stored by the nested
\* return of a pass is made of the value the pass before stored and of
\* the loop variable of this pass.
C37_PassByPass ==
    run.path = "nested_tpl.yaml" /\ status = "running" /\ Len(stack) >= 4
    /\ AtAction /\ Cur.action = S("return") =>
        Let2(get(Ctx, "_return_value", Undefined), stack[3], LAMBDA v, h :
            IF h.k = "repeat"
            THEN v = (CASE h.i = 0 -> Undefined [] h.i = 1 -> S("0") [] h.i = 2 -> S("01"))
            ELSE v = (IF get(Ctx, "item", Undefined) = S("a") THEN S("012")
                      ELSE S("012-a")))

C37_EndValue ==
    run.path = "nested_tpl.yaml" /\ Ended =>
        /\ status = "done"
        /\ get(ctxs[1], "_return_value", Undefined) = S("012-a-b")

\* C37: the templates in the arguments of an action nested in a
\* flow-control block are rendered each time the nested action is
\* executed, against the context of that moment, never once when the
\* enclosing action is dispatched; a pass of a loop renders them with its
\* loop variable and with what earlier passes have set.
C37_NestedRenderedWhenRun ==
    /\ [](C37_NestedUnrendered /\ C37_PassByPass /\ C37_EndValue)
    /\ [][C37_RenderedNow]_vars

\* nested_tpl.yaml is at the return action in the if action of the second
\* pass of its foreach: the template is unrendered in the list, and the
\* context holds the values of the passes before.
C37_Witness ==
    /\ status = "running"
    /\ run.path = "nested_tpl.yaml"
    /\ Len(stack) = 6
    /\ stack[3].k = "foreach"
    /\ H.k = "if"
    /\ AtAction
    /\ Cur.args = [value |-> S("{{ _return_value }}{{ sep }}{{ item }}")]
    /\ get(Ctx, "item", Undefined) = S("b")
    /\ get(Ctx, "_return_value", Undefined) = S("012-a")

(***************************************************************************)
(* C38.  The raw nested action data.                                      *)
(***************************************************************************)
\* The entries of the list that are dicts.
C38_Entries == {i \in DOMAIN run.raw : run.raw[i].t = "dict"}

\* C38: parsing nested entries works on copies and never modifies the raw
\* nested action data: however often the list has been parsed, every entry
\* is what it was, the action kind, `if` and `name` keys included, and
\* every parse of the list gives the same nested actions (or fails alike).
C38_RawDataKept ==
    run.unit = "_parse_actions" =>
        /\ \A i \in C38_Entries :
              /\ heap[run.action_data[i].ref] = run.raw[i].d
              /\ {"action", "if", "name"} \cap DOMAIN run.raw[i].d
                     \subseteq DOMAIN heap[run.action_data[i].ref]
        /\ \A j \in DOMAIN log : log[j].result = _parse_actions(L(run.raw))
        /\ \A j, k \in DOMAIN log : log[j].result = log[k].result

\* The list with a named, conditional log entry, a stray string and a
\* repeat entry has been parsed twice: both parses gave the two actions,
\* the nested list of the repeat still unparsed data.
C38_Witness ==
    /\ run.unit = "_parse_actions"
    /\ Len(run.raw) = 3
    /\ run.raw[2] = S("stray")
    /\ Len(log) = 2
    /\ log[2].result.ok
    /\ log[2].result.v
          = <<[action |-> S("log"), args |-> [message |-> S("{{ i }}")],
               condition |-> S("i > 0"), name |-> S("say")],
              [action |-> S("repeat"),
               args |-> [count |-> I(2), actions |-> L(<<Log("inner")>>)],
               condition |-> None, name |-> None]>>
    /\ DOMAIN heap[1] = {"action", "if", "name", "message"}

(***************************************************************************)
(* C39.  The loop variables after the loop.                               *)
(***************************************************************************)
\* The step ends _execute_action for a repeat or foreach action.
C39_LoopExits ==
    /\ Len(log') > Len(log)
    /\ log'[Len(log')].ev = "exit"
    /\ log'[Len(log')].k \in {"repeat", "foreach"}

\* The number of passes the loop of the handler frame h has started.
C39_Passes(h) ==
    IF "i" \notin DOMAIN h THEN 0
    ELSE Let(IF h.k = "repeat" THEN h.count ELSE Len(h.items), LAMBDA total :
             IF h.i + 1 < total THEN h.i + 1 ELSE total)

\* The context c holds `name` in its runtime layer with `value`, which get
\* returns whatever the parameters and the default vars hold.
C39_Bound(c, name, value) ==
    /\ name \in DOMAIN c._runtime_vars
    /\ c._runtime_vars[name] = value
    /\ get(c, name, Undefined) = value
    /\ variables(c)[name] = value

C39_ExitStep ==
    C39_LoopExits =>
        Let2(log'[Len(log')].h, ctxs'[Len(ctxs')], LAMBDA h, c :
            /\ Len(ctxs') = Len(ctxs)
            /\ IF C39_Passes(h) <= 0 THEN ctxs' = ctxs
               ELSE /\ C39_Bound(c, Str(h.loop_var),
                                 IF h.k = "repeat" THEN I(C39_Passes(h) - 1)
                                 ELSE h.items[C39_Passes(h)])
                    /\ h.k = "foreach" /\ Truthy(h.index_var) =>
                          C39_Bound(c, Str(h.index_var), I(C39_Passes(h) - 1)))

\* No step takes a name out of the runtime layer of a context, and the
\* other two layers of a context stay as they were.
C39_Stays ==
    \A j \in DOMAIN ctxs \cap DOMAIN ctxs' :
        /\ DOMAIN ctxs[j]._runtime_vars \subseteq DOMAIN ctxs'[j]._runtime_vars
        /\ ctxs'[j]._params = ctxs[j]._params
        /\ ctxs'[j]._vars = ctxs[j]._vars

====
